---- MODULE Spec2Model ----
(***************************************************************************)
(* Client transport manager of the OWL frontend: the ConversationPanel     *)
(* component, the push channel opened by owlApiService.connectWebSocket     *)
(* and the polling transport owlApiService.runQuery.                        *)
(*                                                                          *)
(* The browser runs every handler to completion, so one action is one      *)
(* task of the event loop: a socket event, a timer, a form submission or   *)
(* the continuation of an awaited HTTP request.                            *)
(***************************************************************************)
EXTENDS Integers, Sequences, FiniteSets, TLC

\* ---------------------------------------------------------------- bounds
MaxSubmits == 2      \* submissions accepted by handleSubmit
MaxPush == 2         \* frames the server pushes over one socket
MaxPings == 1        \* ticks of the 30 s ping interval that find the socket open
MaxTaskPolls == 1    \* polls that may still see 'running' in the panel specification
MaxPollCalls == 1    \* runQuery calls in the polling specification
MaxTimeout == 2      \* pollTaskCompletion: timeout, in polling intervals
MaxLatency == 1      \* polling intervals one HTTP request may take
MaxRefreshes == 1    \* clicks on the Refresh button of TaskViewer
MaxTasks == 2        \* tasks the Dispatcher creates
MaxWorkers == 1      \* execution slots of the worker pool
MaxCrashes == 1      \* restarts of the server process
MaxCalls == 1        \* calls of the send functions from outside the panel
MaxBrowserCalls == 3 \* calls of browserService
MaxSessions == 2     \* browser sessions the server allocates
MaxSelections == 1   \* times the taskId of a mounted TaskViewer changes
MaxListRequests == 3 \* list requests TaskList issues

\* ------------------------------------------------------ program constants
maxRetries == 60     \* runQuery: status requests per query

CONNECTING == 0
OPEN == 1
CLOSING == 2
CLOSED == 3

NormalClosure == 1000
CloseCodes == {1000, 1001, 1006}

\* ------------------------------------------------------------------ text
\* JavaScript strings are sequences of characters; TLC strings are atoms, so
\* Chars spells out every string the model uses.
Chars(s) ==
  CASE s = "" -> <<>>
    [] s = "How can I help you today?" -> <<"H", "o", "w", " ", "c", "a", "n", " ", "I", " ", "h", "e", "l", "p", " ", "y", "o", "u", " ", "t", "o", "d", "a", "y", "?">>
    [] s = "Thinking..." -> <<"T", "h", "i", "n", "k", "i", "n", "g", ".", ".", ".">>
    [] s = "Thinking... (Browser window should open shortly)" -> <<"T", "h", "i", "n", "k", "i", "n", "g", ".", ".", ".", " ", "(", "B", "r", "o", "w", "s", "e", "r", " ", "w", "i", "n", "d", "o", "w", " ", "s", "h", "o", "u", "l", "d", " ", "o", "p", "e", "n", " ", "s", "h", "o", "r", "t", "l", "y", ")">>
    [] s = "Thinking... (Headless browser mode)" -> <<"T", "h", "i", "n", "k", "i", "n", "g", ".", ".", ".", " ", "(", "H", "e", "a", "d", "l", "e", "s", "s", " ", "b", "r", "o", "w", "s", "e", "r", " ", "m", "o", "d", "e", ")">>
    [] s = "Empty response received. The browser process may have failed to return results." -> <<"E", "m", "p", "t", "y", " ", "r", "e", "s", "p", "o", "n", "s", "e", " ", "r", "e", "c", "e", "i", "v", "e", "d", ".", " ", "T", "h", "e", " ", "b", "r", "o", "w", "s", "e", "r", " ", "p", "r", "o", "c", "e", "s", "s", " ", "m", "a", "y", " ", "h", "a", "v", "e", " ", "f", "a", "i", "l", "e", "d", " ", "t", "o", " ", "r", "e", "t", "u", "r", "n", " ", "r", "e", "s", "u", "l", "t", "s", ".">>
    [] s = "An error occurred processing your request" -> <<"A", "n", " ", "e", "r", "r", "o", "r", " ", "o", "c", "c", "u", "r", "r", "e", "d", " ", "p", "r", "o", "c", "e", "s", "s", "i", "n", "g", " ", "y", "o", "u", "r", " ", "r", "e", "q", "u", "e", "s", "t">>
    [] s = "An unexpected error occurred" -> <<"A", "n", " ", "u", "n", "e", "x", "p", "e", "c", "t", "e", "d", " ", "e", "r", "r", "o", "r", " ", "o", "c", "c", "u", "r", "r", "e", "d">>
    [] s = "Failed to connect to the server via WebSocket. Falling back to HTTP API." -> <<"F", "a", "i", "l", "e", "d", " ", "t", "o", " ", "c", "o", "n", "n", "e", "c", "t", " ", "t", "o", " ", "t", "h", "e", " ", "s", "e", "r", "v", "e", "r", " ", "v", "i", "a", " ", "W", "e", "b", "S", "o", "c", "k", "e", "t", ".", " ", "F", "a", "l", "l", "i", "n", "g", " ", "b", "a", "c", "k", " ", "t", "o", " ", "H", "T", "T", "P", " ", "A", "P", "I", ".">>
    [] s = "WebSocket connection error. Some features may not work properly." -> <<"W", "e", "b", "S", "o", "c", "k", "e", "t", " ", "c", "o", "n", "n", "e", "c", "t", "i", "o", "n", " ", "e", "r", "r", "o", "r", ".", " ", "S", "o", "m", "e", " ", "f", "e", "a", "t", "u", "r", "e", "s", " ", "m", "a", "y", " ", "n", "o", "t", " ", "w", "o", "r", "k", " ", "p", "r", "o", "p", "e", "r", "l", "y", ".">>
    [] s = "WebSocket connection closed (1000). Real-time updates disabled." -> <<"W", "e", "b", "S", "o", "c", "k", "e", "t", " ", "c", "o", "n", "n", "e", "c", "t", "i", "o", "n", " ", "c", "l", "o", "s", "e", "d", " ", "(", "1", "0", "0", "0", ")", ".", " ", "R", "e", "a", "l", "-", "t", "i", "m", "e", " ", "u", "p", "d", "a", "t", "e", "s", " ", "d", "i", "s", "a", "b", "l", "e", "d", ".">>
    [] s = "WebSocket connection closed (1001). Real-time updates disabled." -> <<"W", "e", "b", "S", "o", "c", "k", "e", "t", " ", "c", "o", "n", "n", "e", "c", "t", "i", "o", "n", " ", "c", "l", "o", "s", "e", "d", " ", "(", "1", "0", "0", "1", ")", ".", " ", "R", "e", "a", "l", "-", "t", "i", "m", "e", " ", "u", "p", "d", "a", "t", "e", "s", " ", "d", "i", "s", "a", "b", "l", "e", "d", ".">>
    [] s = "WebSocket connection closed (1006). Real-time updates disabled." -> <<"W", "e", "b", "S", "o", "c", "k", "e", "t", " ", "c", "o", "n", "n", "e", "c", "t", "i", "o", "n", " ", "c", "l", "o", "s", "e", "d", " ", "(", "1", "0", "0", "6", ")", ".", " ", "R", "e", "a", "l", "-", "t", "i", "m", "e", " ", "u", "p", "d", "a", "t", "e", "s", " ", "d", "i", "s", "a", "b", "l", "e", "d", ".">>
    [] s = "Failed to establish WebSocket connection. Using HTTP API instead." -> <<"F", "a", "i", "l", "e", "d", " ", "t", "o", " ", "e", "s", "t", "a", "b", "l", "i", "s", "h", " ", "W", "e", "b", "S", "o", "c", "k", "e", "t", " ", "c", "o", "n", "n", "e", "c", "t", "i", "o", "n", ".", " ", "U", "s", "i", "n", "g", " ", "H", "T", "T", "P", " ", "A", "P", "I", " ", "i", "n", "s", "t", "e", "a", "d", ".">>
    [] s = "No response from server. Please check your connection or the server status." -> <<"N", "o", " ", "r", "e", "s", "p", "o", "n", "s", "e", " ", "f", "r", "o", "m", " ", "s", "e", "r", "v", "e", "r", ".", " ", "P", "l", "e", "a", "s", "e", " ", "c", "h", "e", "c", "k", " ", "y", "o", "u", "r", " ", "c", "o", "n", "n", "e", "c", "t", "i", "o", "n", " ", "o", "r", " ", "t", "h", "e", " ", "s", "e", "r", "v", "e", "r", " ", "s", "t", "a", "t", "u", "s", ".">>
    [] s = "Server error: 500 - Internal Server Error" -> <<"S", "e", "r", "v", "e", "r", " ", "e", "r", "r", "o", "r", ":", " ", "5", "0", "0", " ", "-", " ", "I", "n", "t", "e", "r", "n", "a", "l", " ", "S", "e", "r", "v", "e", "r", " ", "E", "r", "r", "o", "r">>
    [] s = "Task failed" -> <<"T", "a", "s", "k", " ", "f", "a", "i", "l", "e", "d">>
    [] s = "No task ID returned from API" -> <<"N", "o", " ", "t", "a", "s", "k", " ", "I", "D", " ", "r", "e", "t", "u", "r", "n", "e", "d", " ", "f", "r", "o", "m", " ", "A", "P", "I">>
    [] s = "Task timed out after 60 seconds" -> <<"T", "a", "s", "k", " ", "t", "i", "m", "e", "d", " ", "o", "u", "t", " ", "a", "f", "t", "e", "r", " ", "6", "0", " ", "s", "e", "c", "o", "n", "d", "s">>
    [] s = "Browser task crashed" -> <<"B", "r", "o", "w", "s", "e", "r", " ", "t", "a", "s", "k", " ", "c", "r", "a", "s", "h", "e", "d">>
    [] s = "Opening browser" -> <<"O", "p", "e", "n", "i", "n", "g", " ", "b", "r", "o", "w", "s", "e", "r">>
    [] s = "2+2" -> <<"2", "+", "2">>
    [] s = " hi" -> <<" ", "h", "i">>
    [] s = "hi" -> <<"h", "i">>
    [] s = " " -> <<" ">>
    [] s = "4" -> <<"4">>
    [] s = "WebSocket" -> <<"W", "e", "b", "S", "o", "c", "k", "e", "t">>
    [] s = "connection" -> <<"c", "o", "n", "n", "e", "c", "t", "i", "o", "n">>

Strings ==
  { "", "How can I help you today?", "Thinking...",
    "Thinking... (Browser window should open shortly)",
    "Thinking... (Headless browser mode)",
    "Empty response received. The browser process may have failed to return results.",
    "An error occurred processing your request",
    "An unexpected error occurred",
    "Failed to connect to the server via WebSocket. Falling back to HTTP API.",
    "WebSocket connection error. Some features may not work properly.",
    "WebSocket connection closed (1000). Real-time updates disabled.",
    "WebSocket connection closed (1001). Real-time updates disabled.",
    "WebSocket connection closed (1006). Real-time updates disabled.",
    "Failed to establish WebSocket connection. Using HTTP API instead.",
    "No response from server. Please check your connection or the server status.",
    "Server error: 500 - Internal Server Error",
    "Task failed", "No task ID returned from API",
    "Task timed out after 60 seconds", "Browser task crashed",
    "Opening browser", "2+2", " hi", "hi", " ", "4", "WebSocket", "connection" }

Whitespace == {" "}

\* String.prototype.includes
Includes(s, needle) ==
  LET cs == Chars(s)
      ns == Chars(needle)
  IN  \E i \in 1..(Len(cs) - Len(ns) + 1) : SubSeq(cs, i, i + Len(ns) - 1) = ns

\* String.prototype.trim
Trim(s) ==
  LET cs == Chars(s)
      keep == {i \in 1..Len(cs) : cs[i] \notin Whitespace}
  IN  IF keep = {} THEN ""
      ELSE LET lo == CHOOSE i \in keep : \A j \in keep : i <= j
               hi == CHOOSE i \in keep : \A j \in keep : j <= i
           IN  CHOOSE t \in Strings : Chars(t) = SubSeq(cs, lo, hi)

Range(seq) == {seq[i] : i \in 1..Len(seq)}

\* JavaScript truthiness of a string ("" stands for both '' and undefined)
Truthy(s) == s /= ""

\* a || b on strings
OrElse(a, b) == IF Truthy(a) THEN a ELSE b

\* -------------------------------------------------------------- messages
Message(role, content) == [role |-> role, content |-> content]

Greeting == Message("assistant", "How can I help you today?")

NoResult == [present |-> FALSE, answer |-> "", chat_history |-> <<>>]
Result(answer, chat_history) ==
  [present |-> TRUE, answer |-> answer, chat_history |-> chat_history]

\* A frame handed to onMessage.  Absent fields are "" (falsy, as undefined is).
Response(type, status, message, error, browser_mode, result) ==
  [type |-> type, status |-> status, message |-> message, error |-> error,
   browser_mode |-> browser_mode, result |-> result]

WithoutLoading(msgs) == SelectSeq(msgs, LAMBDA m : m.role /= "loading")

\* the filter of the 'connected' branch
IsWebSocketError(m) ==
  m.role = "error" /\ (Includes(m.content, "WebSocket") \/ Includes(m.content, "connection"))

ClearWebSocketErrors(msgs) == SelectSeq(msgs, LAMBDA m : ~IsWebSocketError(m))

\* findIndex(msg => msg.role === 'loading'), 0 when there is none
LoadingIndex(msgs) ==
  IF \E i \in 1..Len(msgs) : msgs[i].role = "loading"
  THEN CHOOSE i \in 1..Len(msgs) :
         msgs[i].role = "loading" /\ \A j \in 1..(i - 1) : msgs[j].role /= "loading"
  ELSE 0

BrowserModeText(mode) ==
  IF mode = "visible" THEN "Thinking... (Browser window should open shortly)"
  ELSE "Thinking... (Headless browser mode)"

\* The callback given to connectWebSocket is the one of the first render, so
\* the `loading` it reads is the initial value of the state.
CapturedLoading == FALSE

\* ConversationPanel.handleWebSocketMessage, as a function of the panel state
\* p = [messages, loading, status, outcomes].  outcomes counts the terminal
\* outcomes (a result or a task error) the panel has rendered.
StatusCompleted(p, r) ==
  LET prev == WithoutLoading(p.messages)
      res  == r.result
      msgs == IF Len(res.chat_history) > 0
                THEN prev \o res.chat_history
              ELSE IF Truthy(res.answer) /\ Truthy(Trim(res.answer))
                THEN Append(prev, Message("assistant", res.answer))
              ELSE Append(prev, Message("error",
                     "Empty response received. The browser process may have failed to return results."))
  IN  [p EXCEPT !.messages = msgs, !.status = "success", !.loading = FALSE,
                !.outcomes = @ + 1]

StatusError(p, r) ==
  [p EXCEPT !.status = "error", !.loading = FALSE,
            !.messages = Append(WithoutLoading(@),
               Message("error", OrElse(r.error, "An error occurred processing your request"))),
            !.outcomes = @ + 1]

StatusProcessing(p, r) ==
  LET prev == p.messages
  IN  IF Len(prev) > 0 /\ prev[Len(prev)].role = "loading"
      THEN [p EXCEPT !.messages =
              Append(SubSeq(prev, 1, Len(prev) - 1),
                     Message("loading", BrowserModeText(r.browser_mode)))]
      ELSE p

LogMessage(p, r) ==
  IF CapturedLoading
  THEN LET i == LoadingIndex(p.messages)
       IN  IF i /= 0
           THEN [p EXCEPT !.messages[i].content = OrElse(r.message, "Thinking...")]
           ELSE p
  ELSE p

\* the 'error' branch without the filter of the loading bubble
ErrorMessageKeepsBubble(p, r) ==
  [p EXCEPT !.status = "error", !.loading = FALSE,
            !.messages = Append(@,
               Message("error", OrElse(r.message, "An unexpected error occurred")))]

ErrorMessage(p, r) ==
  [p EXCEPT !.status = "error", !.loading = FALSE,
            !.messages = Append(WithoutLoading(@),
               Message("error", OrElse(r.message, "An unexpected error occurred")))]

handleWebSocketMessage(p, r) ==
  IF r.type = "system" /\ r.status = "connected"
    THEN [p EXCEPT !.messages = ClearWebSocketErrors(@)]
  ELSE IF r.type = "ack" THEN p
  ELSE IF r.type = "status"
    THEN IF r.status = "completed" /\ r.result.present THEN StatusCompleted(p, r)
         ELSE IF r.status = "error" THEN StatusError(p, r)
         ELSE IF r.status = "processing" /\ Truthy(r.browser_mode) THEN StatusProcessing(p, r)
         ELSE p
  ELSE IF r.type = "log" THEN LogMessage(p, r)
  ELSE IF r.type = "error" THEN ErrorMessage(p, r)
  ELSE p

\* onMessage called once for every frame of rs, in order
RECURSIVE DeliverAll(_, _)
DeliverAll(p, rs) ==
  IF rs = <<>> THEN p
  ELSE DeliverAll(handleWebSocketMessage(p, Head(rs)), Tail(rs))

\* ------------------------------------------------------------------ state
VARIABLES
  mounted,        \* the mount effect of ConversationPanel has run
  messages,       \* ConversationPanel: useState<Message[]>
  loading,        \* ConversationPanel: useState(false)
  status,         \* ConversationPanel: "idle" | "loading" | "success" | "error"
  outcomes,       \* terminal outcomes rendered so far (results and task errors)
  submitted,      \* submissions accepted by handleSubmit so far
  wsRef,          \* "ws" when connectWebSocket returned a socket, else "null"
  readyState,     \* WebSocket.readyState of that socket
  hasConnected,   \* connectWebSocket: let hasConnected
  timerArmed,     \* connectWebSocket: connectionTimeout is pending
  wsSent,         \* frames written with ws.send, in order
  pings,          \* ticks of pingInterval that sent a ping
  pushed,         \* frames the server has pushed over the socket
  wsDone,         \* the terminal frame the server pushed for each query sent over the socket
  rq,             \* runQuery calls: position, retries and query of each
  srvTask,        \* the server's task behind each runQuery call
  lastEvents,     \* socket events dispatched by the last task of the event loop
  lastDelivered   \* frames that task handed to onMessage

VARIABLES
  ptc,            \* taskService.pollTaskCompletion: the call in progress
  cancel,         \* taskService.cancelTask: the call in progress
  viewer          \* TaskViewer: its state and the position of its poll loop

\* The server half (Registry, Dispatcher, Worker Pool), as specified.
VARIABLES
  registry,       \* Registry: the Task stored under each id, or Absent
  nextId,         \* Registry: ids allocated so far
  queue,          \* Worker Pool: ids waiting for a free slot, FIFO
  worker,         \* Worker Pool: the handle of each slot
  callbacks,      \* completion callbacks handed to the Dispatcher, not yet run
  history,        \* statuses committed for each id, in commit order
  tally,          \* completion callbacks accepted and rejected for each id
  request,        \* the Transition request of the last step and its answer
  channel,        \* Transport Gateway: the push channel is "open" or "closed"
  outbox,         \* Transport Gateway: notifications not yet delivered, FIFO
  received,       \* statuses pushed to the client for each id, in delivery order
  snapshot,       \* the Registry snapshot on durable storage
  phase,          \* server process: "up", "down", or "loaded" (snapshot reloaded)
  crashes         \* restarts so far

\* The rest of the page: callers of the service objects.
VARIABLES
  lastSend,       \* the last call of a send function: its frame, the socket state, its value
  currentSessionId, \* browserService.currentSessionId ("" is null)
  browserCalls,   \* browserService: every call made, with its request and its response
  sessions,       \* the server's browser sessions: ids allocated and ids live
  affinity,       \* session ids the responses have carried, and what became of them
  taskList        \* TaskList: its state and the list requests it has issued

pageVars == <<lastSend, currentSessionId, browserCalls, sessions, affinity, taskList>>
browserVars == <<currentSessionId, browserCalls, sessions, affinity>>
panelVars == <<messages, loading, status, outcomes>>
\* state outside the conversation panel and its two transports
serverVars == <<registry, nextId, queue, worker, callbacks, history, tally, request,
                channel, outbox, received, snapshot, phase, crashes>>
recoveryVars == <<snapshot, phase, crashes>>
gatewayVars == <<channel, outbox, received>>
clientVars == <<mounted, messages, loading, status, outcomes, submitted, wsRef,
                readyState, hasConnected, timerArmed, wsSent, pings, pushed,
                wsDone, rq, srvTask, lastEvents, lastDelivered, ptc, cancel, viewer,
                pageVars>>
otherVars == <<ptc, cancel, viewer, serverVars, pageVars>>
\* the conversation panel, its transports and the task service
clientTaskVars == <<mounted, messages, loading, status, outcomes, submitted, wsRef,
                    readyState, hasConnected, timerArmed, wsSent, pings, pushed,
                    wsDone, rq, srvTask, lastEvents, lastDelivered, ptc, cancel, viewer>>
sockVars  == <<wsRef, readyState, hasConnected, timerArmed>>
restVars  == <<rq, srvTask>>
vars == <<mounted, messages, loading, status, outcomes, submitted, wsRef,
          readyState, hasConnected, timerArmed, wsSent, pings, pushed,
          wsDone, rq, srvTask, lastEvents, lastDelivered, ptc, cancel, viewer,
          registry, nextId, queue, worker, callbacks, history, tally, request,
          channel, outbox, received, snapshot, phase, crashes, pageVars>>

Panel == [messages |-> messages, loading |-> loading, status |-> status,
          outcomes |-> outcomes]

SetPanel(p) ==
  /\ messages' = p.messages
  /\ loading' = p.loading
  /\ status' = p.status
  /\ outcomes' = p.outcomes

Event(kind, code) == [kind |-> kind, code |-> code]

Observe(events, frames) ==
  /\ lastEvents' = events
  /\ lastDelivered' = frames

Queries == 1..MaxSubmits

NoCall == [pc |-> "none", retries |-> 0, query |-> "", seen |-> "", raised |-> ""]
NoTask == [status |-> "none", result |-> NoResult, error |-> ""]

NoPoll == [pc |-> "none", id |-> 0, timeout |-> 0, elapsed |-> 0, requests |-> 0,
           seen |-> "", raised |-> ""]
NoCancel == [pc |-> "none", id |-> 0, sent |-> 0, answer |-> "", success |-> FALSE,
             raised |-> FALSE]
\* id is the taskId in the closure of the poll loop, taskId the prop of the
\* last render, shows the task whose snapshot setTask stored last, effect the
\* task of the fetchTaskStatus a later run of the effect has outstanding
NoViewer == [pc |-> "unmounted", id |-> 0, duration |-> 0, elapsed |-> 0, task |-> "",
             error |-> "", fetching |-> FALSE, refreshes |-> 0,
             taskId |-> 0, shows |-> 0, effect |-> 0, selections |-> 0]

\* TaskList before its first render: tasks is the request whose response
\* setTasks stored last, 0 for the empty array of useState
NoTaskList == [mounted |-> FALSE, filter |-> "", requests |-> <<>>, tasks |-> 0,
               isLoading |-> FALSE, error |-> ""]

TaskIds == 1..MaxTasks
Workers == 1..MaxWorkers

\* Get(id) of an id the Registry does not hold
Absent == [status |-> "Absent", type |-> "", result |-> "", error |-> ""]
NoRequest == [id |-> 0, from |-> "", to |-> "", reply |-> ""]
BrowserCallIds == 1..MaxBrowserCalls
NoReply == [success |-> FALSE, session_id |-> ""]
NoBrowserCall == [pc |-> "none", op |-> "", explicit |-> "", sent |-> "",
                  requested |-> FALSE, reply |-> NoReply, rejected |-> FALSE,
                  returned |-> NoReply]
NoSend == [kind |-> "", readyState |-> CLOSED, ok |-> FALSE, calls |-> 0]
Idle == [task |-> 0, returned |-> FALSE, timedOut |-> FALSE, stopping |-> FALSE,
         alive |-> TRUE]

Init ==
  /\ mounted = FALSE
  /\ messages = <<Greeting>>
  /\ loading = FALSE
  /\ status = "idle"
  /\ outcomes = 0
  /\ submitted = 0
  /\ wsRef = "null"
  /\ readyState = CLOSED
  /\ hasConnected = FALSE
  /\ timerArmed = FALSE
  /\ wsSent = <<>>
  /\ pings = 0
  /\ pushed = 0
  /\ wsDone = <<>>
  /\ rq = [i \in Queries |-> NoCall]
  /\ srvTask = [i \in Queries |-> NoTask]
  /\ lastEvents = <<>>
  /\ lastDelivered = <<>>
  /\ ptc = NoPoll
  /\ cancel = NoCancel
  /\ viewer = NoViewer
  /\ registry = [id \in TaskIds |-> Absent]
  /\ nextId = 0
  /\ queue = <<>>
  /\ worker = [w \in Workers |-> Idle]
  /\ callbacks = {}
  /\ history = [id \in TaskIds |-> <<>>]
  /\ tally = [id \in TaskIds |-> [accepted |-> 0, conflicts |-> 0, written |-> <<>>]]
  /\ request = NoRequest
  /\ channel = "closed"
  /\ outbox = <<>>
  /\ received = [id \in TaskIds |-> <<>>]
  /\ snapshot = [id \in TaskIds |-> Absent]
  /\ phase = "up"
  /\ crashes = 0
  /\ lastSend = NoSend
  /\ currentSessionId = ""
  /\ browserCalls = [n \in BrowserCallIds |-> NoBrowserCall]
  /\ sessions = [allocated |-> 0, live |-> {}]
  /\ affinity = [latest |-> "", open |-> {}, cleared |-> {}]
  /\ taskList = NoTaskList

\* ------------------------------------------------- connectWebSocket frames
ErrorFrame(text) == Response("error", "", text, "", "", NoResult)

ConnectedFrame ==
  Response("system", "connected", "WebSocket connection established successfully",
           "", "", NoResult)

TimeoutFrame ==
  ErrorFrame("Failed to connect to the server via WebSocket. Falling back to HTTP API.")

ConstructFailedFrame ==
  ErrorFrame("Failed to establish WebSocket connection. Using HTTP API instead.")

ClosedText(code) ==
  "WebSocket connection closed (" \o ToString(code) \o "). Real-time updates disabled."

\* ws.onerror: the frames it hands to onMessage
OnError(connected) ==
  IF connected
  THEN <<ErrorFrame("WebSocket connection error. Some features may not work properly.")>>
  ELSE <<>>

\* ws.onclose without the test of the close code
OnCloseAnyCode(code, connected) ==
  IF connected
  THEN <<ErrorFrame(ClosedText(code))>>
  ELSE <<>>

\* ws.onclose
OnClose(code, connected) ==
  IF code /= NormalClosure /\ connected
  THEN <<ErrorFrame(ClosedText(code))>>
  ELSE <<>>

PingFrame == [type |-> "ping", query |-> ""]
QueryFrame(q) == [type |-> "query", query |-> q]

\* a send that writes the frame and still reports failure
SendWebSocketUnreported(rs, sent, frame) ==
  IF rs /= OPEN THEN [ok |-> FALSE, sent |-> sent]
  ELSE [ok |-> FALSE, sent |-> Append(sent, frame)]

\* a send that writes the frame whatever the state of the socket
SendWebSocketUnguarded(rs, sent, frame) ==
  [ok |-> TRUE, sent |-> Append(sent, frame)]

\* sendWebSocketQuery / sendWebSocketPing / cancelWebSocketTask: the value
\* returned and the frames sent
SendWebSocket(rs, sent, frame) ==
  IF rs /= OPEN THEN [ok |-> FALSE, sent |-> sent]
  ELSE [ok |-> TRUE, sent |-> Append(sent, frame)]

CancelFrame == [type |-> "cancel", query |-> ""]

\* ------------------------------------------------------- connectWebSocket
\* The mount effect: connectWebSocket(handleWebSocketMessage).  The
\* constructor either yields a socket in CONNECTING or throws.
Mount(constructed) ==
  /\ ~mounted
  /\ mounted' = TRUE
  /\ IF constructed
     THEN /\ wsRef' = "ws"
          /\ readyState' = CONNECTING
          /\ hasConnected' = FALSE
          /\ timerArmed' = TRUE
          /\ Observe(<<>>, <<>>)
          /\ UNCHANGED panelVars
     ELSE /\ wsRef' = "null"
          /\ SetPanel(DeliverAll(Panel, <<ConstructFailedFrame>>))
          /\ Observe(<<>>, <<ConstructFailedFrame>>)
          /\ UNCHANGED <<readyState, hasConnected, timerArmed>>
  /\ UNCHANGED <<submitted, wsSent, pings, pushed, wsDone, rq, srvTask>>
  /\ UNCHANGED otherVars

\* setTimeout(..., 5000): the connection timeout fires
ConnectionTimeout ==
  /\ timerArmed
  /\ timerArmed' = FALSE
  /\ IF readyState /= OPEN
     THEN /\ readyState' = IF readyState \in {CONNECTING, OPEN} THEN CLOSING ELSE readyState
          /\ SetPanel(DeliverAll(Panel, <<TimeoutFrame>>))
          /\ Observe(<<Event("timeout", 0)>>, <<TimeoutFrame>>)
     ELSE /\ Observe(<<Event("timeout", 0)>>, <<>>)
          /\ UNCHANGED <<readyState, messages, loading, status, outcomes>>
  /\ UNCHANGED <<mounted, submitted, wsRef, hasConnected, wsSent, pings, pushed,
                 wsDone, rq, srvTask>>
  /\ UNCHANGED otherVars

\* ws.onopen (the enhanced handler, which calls the original one)
WsOpen ==
  /\ wsRef = "ws"
  /\ readyState = CONNECTING
  /\ readyState' = OPEN
  /\ hasConnected' = TRUE
  /\ timerArmed' = FALSE
  /\ SetPanel(DeliverAll(Panel, <<ConnectedFrame>>))
  /\ wsSent' = SendWebSocket(OPEN, wsSent, PingFrame).sent
  /\ Observe(<<Event("open", 0)>>, <<ConnectedFrame>>)
  /\ UNCHANGED <<mounted, submitted, wsRef, pings, pushed, wsDone, rq, srvTask>>
  /\ UNCHANGED otherVars

\* The connection fails: the browser dispatches an error event and then a
\* close event with code 1006 in one task.
WsFail ==
  /\ wsRef = "ws"
  /\ readyState \in {CONNECTING, OPEN, CLOSING}
  /\ readyState' = CLOSED
  /\ timerArmed' = FALSE
  /\ LET frames == OnError(hasConnected) \o OnClose(1006, hasConnected)
     IN  /\ SetPanel(DeliverAll(Panel, frames))
         /\ Observe(<<Event("error", 0), Event("close", 1006)>>, frames)
  /\ UNCHANGED <<mounted, submitted, wsRef, hasConnected, wsSent, pings, pushed,
                 wsDone, rq, srvTask>>
  /\ UNCHANGED otherVars

\* The open connection is closed with a close event only
WsClose(code) ==
  /\ wsRef = "ws"
  /\ readyState = OPEN
  /\ readyState' = CLOSED
  /\ timerArmed' = FALSE
  /\ LET frames == OnClose(code, hasConnected)
     IN  /\ SetPanel(DeliverAll(Panel, frames))
         /\ Observe(<<Event("close", code)>>, frames)
  /\ UNCHANGED <<mounted, submitted, wsRef, hasConnected, wsSent, pings, pushed,
                 wsDone, rq, srvTask>>
  /\ UNCHANGED otherVars

\* setInterval(..., 30000) of the mount effect
PingTick ==
  /\ mounted
  /\ pings < MaxPings
  /\ wsRef = "ws" /\ readyState = OPEN
  /\ wsSent' = SendWebSocket(readyState, wsSent, PingFrame).sent
  /\ pings' = pings + 1
  /\ Observe(<<>>, <<>>)
  /\ UNCHANGED <<mounted, messages, loading, status, outcomes, submitted, wsRef,
                 readyState, hasConnected, timerArmed, pushed, wsDone, rq, srvTask>>
  /\ UNCHANGED otherVars

\* sendWebSocketQuery, sendWebSocketPing or cancelWebSocketTask called by
\* any holder of the socket, whatever its state
SendKinds == {"query", "ping", "cancel"}

FrameOf(kind) ==
  IF kind = "query" THEN QueryFrame("2+2")
  ELSE IF kind = "ping" THEN PingFrame ELSE CancelFrame

CallSend(kind) ==
  /\ wsRef = "ws"
  /\ kind \in SendKinds
  /\ lastSend.calls < MaxCalls
  /\ LET sent == SendWebSocket(readyState, wsSent, FrameOf(kind))
     IN  /\ wsSent' = sent.sent
         /\ lastSend' = [kind |-> kind, readyState |-> readyState, ok |-> sent.ok,
                         calls |-> lastSend.calls + 1]
  /\ UNCHANGED <<mounted, panelVars, submitted, sockVars, pings, pushed, wsDone, rq,
                 srvTask, lastEvents, lastDelivered, ptc, cancel, viewer, serverVars,
                 browserVars, taskList>>

\* ------------------------------------------------------------- the server
\* What the server may answer to a query q: the opaque agent's result, with
\* or without a transcript.
Results(q) ==
  { Result("4", <<>>),
    Result(" ", <<>>),
    Result("4", <<Message("user", q), Message("assistant", "4")>>) }

StatusFrame(st, error, browser_mode, result) ==
  Response("status", st, "", error, browser_mode, result)

TerminalStatuses == {"completed", "error", "failed", "canceled"}

IsTerminalFrame(r) == r.type = "status" /\ r.status \in TerminalStatuses

WsQuerySeq == SelectSeq(wsSent, LAMBDA f : f.type = "query")

WsQueries == Len(WsQuerySeq)

\* frames about the connection, which the server may push at any time
LifecycleFrames ==
  { ConnectedFrame,
    Response("pong", "", "", "", "", NoResult),
    ErrorFrame("") }

\* progress of a query received over the socket
ProgressFrames ==
  { Response("ack", "", "", "", "", NoResult),
    Response("log", "", "Opening browser", "", "", NoResult),
    StatusFrame("processing", "", "visible", NoResult) }

\* the terminal status of a query q received over the socket
TerminalFrames(q) ==
  { StatusFrame("completed", "", "", NoResult),
    StatusFrame("error", "Browser task crashed", "", NoResult),
    StatusFrame("failed", "Browser task crashed", "", NoResult),
    StatusFrame("canceled", "", "", NoResult) }
  \cup { StatusFrame("completed", "", "", res) : res \in Results(q) }

\* What the server may push next: lifecycle frames at any time; progress and
\* the terminal status of the query it has not answered yet; or, when every
\* query is answered, the terminal frame of the last one once more.
PushFrames ==
  LifecycleFrames
  \cup (IF Len(wsDone) < WsQueries
          THEN ProgressFrames \cup TerminalFrames(WsQuerySeq[Len(wsDone) + 1].query)
        ELSE IF Len(wsDone) > 0 THEN {wsDone[Len(wsDone)]}
        ELSE {})

\* ws.onmessage: the server pushes frame r and onMessage is called with it
WsMessage(r) ==
  /\ wsRef = "ws"
  /\ readyState = OPEN
  /\ pushed < MaxPush
  /\ r \in PushFrames
  /\ pushed' = pushed + 1
  /\ wsDone' = IF IsTerminalFrame(r) /\ Len(wsDone) < WsQueries
               THEN Append(wsDone, r) ELSE wsDone
  /\ SetPanel(DeliverAll(Panel, <<r>>))
  /\ Observe(<<Event("message", 0)>>, <<r>>)
  /\ UNCHANGED <<mounted, submitted, wsRef, readyState, hasConnected, timerArmed,
                 wsSent, pings, rq, srvTask>>
  /\ UNCHANGED otherVars

\* ---------------------------------------------------------- handleSubmit
Inputs == {" ", "2+2"}

\* the catch block of handleSubmit; formatted is error.formattedMessage
SubmitFailed(p, formatted) ==
  [p EXCEPT !.status = "error",
            !.messages = Append(WithoutLoading(@),
               Message("error", OrElse(formatted, "An error occurred processing your request"))),
            !.loading = FALSE,
            !.outcomes = @ + 1]

\* sendRESTQuery after runQuery has returned result
RestCompleted(p, result) ==
  [p EXCEPT !.messages =
              IF Len(result.chat_history) > 0
              THEN result.chat_history
              ELSE Append(WithoutLoading(@), Message("assistant", result.answer)),
            !.status = "success",
            !.loading = FALSE,
            !.outcomes = @ + 1]

\* handleSubmit up to its first await: the query goes over the socket when it
\* is open and the send succeeds, else runQuery posts it.
handleSubmit(input) ==
  /\ mounted
  /\ submitted < MaxSubmits
  /\ input \in Inputs
  /\ Truthy(Trim(input)) /\ ~loading
  /\ messages' = messages \o <<Message("user", Trim(input)), Message("loading", "Thinking...")>>
  /\ loading' = TRUE
  /\ status' = "loading"
  /\ submitted' = submitted + 1
  /\ LET sent == SendWebSocket(readyState, wsSent, QueryFrame(input))
         posted == [rq EXCEPT ![submitted + 1] =
                      [pc |-> "posting", retries |-> 0, query |-> input, seen |-> "", raised |-> ""]]
     IN  IF wsRef = "ws" /\ readyState = OPEN
         THEN /\ wsSent' = sent.sent
              /\ rq' = IF sent.ok THEN rq ELSE posted
         ELSE /\ rq' = posted
              /\ UNCHANGED wsSent
  /\ Observe(<<>>, <<>>)
  /\ UNCHANGED <<mounted, outcomes, wsRef, readyState, hasConnected, timerArmed,
                 pings, pushed, wsDone, srvTask>>
  /\ UNCHANGED otherVars

\* -------------------------------------------------------------- runQuery
\* error.formattedMessage set by the response interceptor; "" for an Error
\* thrown by runQuery itself
FormattedMessage(failure) ==
  IF failure = "http_500" THEN "Server error: 500 - Internal Server Error"
  ELSE IF failure = "no_response"
    THEN "No response from server. Please check your connection or the server status."
  ELSE ""

PostAnswers == {"task_id", "no_task_id", "http_500", "no_response"}

\* the answer to POST /run/async arrives
RunQueryStarted(i, answer) ==
  /\ rq[i].pc = "posting"
  /\ answer \in PostAnswers
  /\ IF answer = "task_id"
     THEN /\ rq' = [rq EXCEPT ![i].pc = "polling"]
          /\ srvTask' = [srvTask EXCEPT ![i].status = "running"]
          /\ UNCHANGED panelVars
     ELSE /\ rq' = [rq EXCEPT ![i].pc = "done",
                                ![i].raised = IF answer = "no_task_id"
                                              THEN "No task ID returned from API" ELSE answer]
          /\ SetPanel(SubmitFailed(Panel, FormattedMessage(answer)))
          /\ UNCHANGED srvTask
  /\ Observe(<<>>, <<>>)
  /\ UNCHANGED <<mounted, submitted, wsRef, readyState, hasConnected, timerArmed,
                 wsSent, pings, pushed, wsDone>>
  /\ UNCHANGED otherVars

\* the server's task reaches a terminal status
TaskFinished(i, st, result, statuses) ==
  /\ srvTask[i].status = "running"
  /\ st \in statuses
  /\ result \in IF st = "completed" THEN Results(rq[i].query) \cup {NoResult} ELSE {NoResult}
  /\ srvTask' = [srvTask EXCEPT ![i] =
       [status |-> st, result |-> result,
        error |-> IF st = "completed" THEN "" ELSE "Browser task crashed"]]
  /\ Observe(<<>>, <<>>)
  /\ UNCHANGED <<mounted, messages, loading, status, outcomes, submitted, wsRef,
                 readyState, hasConnected, timerArmed, wsSent, pings, pushed,
                 wsDone, rq>>
  /\ UNCHANGED otherVars

PollAnswers == {"status", "no_response"}

\* runQuery ends: it returned (raised = "") or threw the Error `raised`
Ended(call, retries, seen, raised) ==
  [call EXCEPT !.pc = "done", !.retries = retries, !.seen = seen, !.raised = raised]

\* the statuses at which the poll loop of runQuery stops
StopsPolling(st) == st \in {"completed", "error"}

\* One turn of the poll loop: the 1 s wait, GET /run/task/{id} and the
\* handling of its answer.  patience bounds the polls that still see 'running'.
RunQueryPolled(i, answer, patience) ==
  /\ rq[i].pc = "polling"
  /\ answer \in PollAnswers
  /\ srvTask[i].status = "running" => rq[i].retries < patience
  /\ LET retries == rq[i].retries + 1
         task == srvTask[i]
     IN  IF answer /= "status"
           THEN /\ rq' = [rq EXCEPT ![i] = Ended(@, retries, @.seen, answer)]
                /\ SetPanel(SubmitFailed(Panel, FormattedMessage(answer)))
         ELSE IF StopsPolling(task.status) /\ task.status = "completed"
           THEN IF task.result.present
                THEN /\ rq' = [rq EXCEPT ![i] = Ended(@, retries, task.status, "")]
                     /\ SetPanel(RestCompleted(Panel, task.result))
                ELSE /\ rq' = [rq EXCEPT ![i] = Ended(@, retries, task.status, "TypeError")]
                     /\ SetPanel(SubmitFailed(Panel, ""))
         ELSE IF StopsPolling(task.status)
           THEN /\ rq' = [rq EXCEPT ![i] =
                            Ended(@, retries, task.status, OrElse(task.error, "Task failed"))]
                /\ SetPanel(SubmitFailed(Panel, ""))
         ELSE IF retries < maxRetries
           THEN /\ rq' = [rq EXCEPT ![i].retries = retries, ![i].seen = task.status]
                /\ UNCHANGED panelVars
         ELSE /\ rq' = [rq EXCEPT ![i] =
                          Ended(@, retries, task.status, "Task timed out after 60 seconds")]
              /\ SetPanel(SubmitFailed(Panel, ""))
  /\ Observe(<<>>, <<>>)
  /\ UNCHANGED <<mounted, submitted, wsRef, readyState, hasConnected, timerArmed,
                 wsSent, pings, pushed, wsDone, srvTask>>
  /\ UNCHANGED otherVars

\* --------------------------------------------- taskService.pollTaskCompletion
\* Time is counted in polling intervals: elapsed is Date.now() - startTime.
PollTimeouts == {0, MaxTimeout}
Latencies == 0..MaxLatency

\* GET /tasks/{id}: the status of the task with that id
StatusOf(i) == srvTask[i].status

\* the statuses at which pollTaskCompletion returns the task
CompletionStatuses == {"completed", "failed", "canceled"}

\* a loop condition that still holds when the timeout has just elapsed
PollLoopInclusive(call, elapsed) ==
  IF elapsed <= call.timeout
  THEN [call EXCEPT !.pc = "requesting", !.elapsed = elapsed, !.requests = @ + 1]
  ELSE [call EXCEPT !.pc = "done", !.elapsed = elapsed, !.raised = "Task polling timed out"]

\* the loop condition, evaluated with `elapsed` on the clock: the next status
\* request is issued at once, or the call throws
PollLoop(call, elapsed) ==
  IF elapsed < call.timeout
  THEN [call EXCEPT !.pc = "requesting", !.elapsed = elapsed, !.requests = @ + 1]
  ELSE [call EXCEPT !.pc = "done", !.elapsed = elapsed, !.raised = "Task polling timed out"]

\* pollTaskCompletion(taskId, interval, timeout) is called
PollTaskCompletion(i, timeout) ==
  /\ ptc.pc = "none"
  /\ i \in Queries /\ timeout \in PollTimeouts
  /\ srvTask[i].status /= "none"
  /\ ptc' = PollLoop([NoPoll EXCEPT !.id = i, !.timeout = timeout], 0)
  /\ UNCHANGED <<mounted, panelVars, submitted, sockVars, wsSent, pings, pushed,
                 wsDone, rq, srvTask, lastEvents, lastDelivered, cancel, viewer, serverVars, pageVars>>

\* getTaskStatus answers after `took` intervals
PollAnswered(answer, took) ==
  /\ ptc.pc = "requesting"
  /\ answer \in PollAnswers /\ took \in Latencies
  /\ LET elapsed == ptc.elapsed + took
         st == StatusOf(ptc.id)
     IN  ptc' = IF answer /= "status"
                  THEN [ptc EXCEPT !.pc = "done", !.elapsed = elapsed, !.raised = answer]
                ELSE IF st \in CompletionStatuses
                  THEN [ptc EXCEPT !.pc = "done", !.elapsed = elapsed, !.seen = st]
                ELSE [ptc EXCEPT !.pc = "waiting", !.elapsed = elapsed, !.seen = st]
  /\ UNCHANGED <<mounted, panelVars, submitted, sockVars, wsSent, pings, pushed,
                 wsDone, rq, srvTask, lastEvents, lastDelivered, cancel, viewer, serverVars, pageVars>>

\* a poll loop that cancels the task when it gives up
PollWaitedCanceling ==
  /\ ptc.pc = "waiting"
  /\ ptc' = PollLoop(ptc, ptc.elapsed + 1)
  /\ cancel' = IF ptc'.pc = "done" THEN [cancel EXCEPT !.sent = @ + 1] ELSE cancel
  /\ UNCHANGED <<mounted, panelVars, submitted, sockVars, wsSent, pings, pushed,
                 wsDone, rq, srvTask, lastEvents, lastDelivered, viewer, serverVars, pageVars>>

\* setTimeout(resolve, interval) fires and the loop condition is evaluated
PollWaited ==
  /\ ptc.pc = "waiting"
  /\ ptc' = PollLoop(ptc, ptc.elapsed + 1)
  /\ UNCHANGED <<mounted, panelVars, submitted, sockVars, wsSent, pings, pushed,
                 wsDone, rq, srvTask, lastEvents, lastDelivered, cancel, viewer, serverVars, pageVars>>

\* ------------------------------------------------------ taskService.cancelTask
\* reason: none given, a text, or a string encodeURIComponent rejects
Reasons == {"", "user request", "lone surrogate"}

\* answers to POST /tasks/{id}/cancel: a 2xx body, or a rejected request
CancelAnswers == {"success", "success_false", "status_error", "http_500", "no_response"}

\* response.data.status of a 2xx answer
BodyStatus(answer) == IF answer = "status_error" THEN "error" ELSE ""

\* a try block that lets a body with status 'error' through
CancelThrowsUnchecked(answer) == answer \in {"http_500", "no_response"}

\* the try block throws: api.post rejected, or the body carries status 'error'
CancelThrows(answer) ==
  \/ answer \in {"http_500", "no_response"}
  \/ BodyStatus(answer) = "error"

\* the value cancelTask resolves to; the catch block swallows what was thrown
CancelSettled(call, thrown) ==
  [call EXCEPT !.pc = "done", !.success = ~thrown, !.raised = FALSE]

\* cancelTask(taskId, reason) up to its await
CancelTask(i, reason) ==
  /\ cancel.pc = "none"
  /\ i \in Queries /\ reason \in Reasons
  /\ srvTask[i].status /= "none"
  /\ cancel' = IF reason = "lone surrogate"
                THEN CancelSettled([cancel EXCEPT !.id = i], TRUE)
                ELSE [cancel EXCEPT !.pc = "posting", !.id = i, !.sent = @ + 1]
  /\ UNCHANGED <<mounted, panelVars, submitted, sockVars, wsSent, pings, pushed,
                 wsDone, rq, srvTask, lastEvents, lastDelivered, ptc, viewer, serverVars, pageVars>>

\* The answer to the cancel request arrives.  A server that accepted the
\* request has canceled the task when it was still running.
CancelAnswered(answer) ==
  /\ cancel.pc = "posting"
  /\ answer \in CancelAnswers
  /\ cancel' = CancelSettled([cancel EXCEPT !.answer = answer], CancelThrows(answer))
  /\ srvTask' = IF answer = "success" /\ srvTask[cancel.id].status = "running"
                 THEN [srvTask EXCEPT ![cancel.id].status = "canceled"]
                 ELSE srvTask
  /\ UNCHANGED <<mounted, panelVars, submitted, sockVars, wsSent, pings, pushed,
                 wsDone, rq, lastEvents, lastDelivered, ptc, viewer, serverVars, pageVars>>

\* ------------------------------------------------------------- TaskViewer
\* the error back-off of the poll loop, in polling intervals
ErrorBackoff == 5

\* fetchTaskStatus after its await: setTask, or setError in the catch block
FetchedFor(v, i, answer) ==
  IF answer = "status" THEN [v EXCEPT !.task = StatusOf(i), !.shows = i]
  ELSE [v EXCEPT !.error = answer]

\* the same in the closure of the poll loop and of the mount effect
Fetched(v, answer) == FetchedFor(v, v.id, answer)

\* The while condition of TaskViewer.pollTaskCompletion with `elapsed` on the
\* clock: fetchTaskStatus clears the error and issues the next request, or
\* the loop ends and the finally block resets isPolling.
ViewerLoop(v, elapsed) ==
  IF elapsed < v.duration
  THEN [v EXCEPT !.pc = "requesting", !.elapsed = elapsed, !.error = ""]
  ELSE [v EXCEPT !.pc = "idle", !.elapsed = elapsed]

isPolling == viewer.pc \in {"requesting", "waiting", "backoff"}

\* The mount effect: fetchTaskStatus() and pollTaskCompletion() are both started.
ViewerMount(i, duration) ==
  /\ viewer.pc = "unmounted"
  /\ i \in Queries /\ duration \in PollTimeouts
  /\ srvTask[i].status /= "none"
  /\ viewer' = ViewerLoop([viewer EXCEPT !.id = i, !.taskId = i, !.duration = duration,
                                          !.fetching = TRUE], 0)
  /\ UNCHANGED <<mounted, panelVars, submitted, sockVars, wsSent, pings, pushed,
                 wsDone, rq, srvTask, lastEvents, lastDelivered, ptc, cancel, serverVars, pageVars>>

\* the request of the mount effect's own fetchTaskStatus is answered
ViewerFetched(answer) ==
  /\ viewer.fetching
  /\ answer \in PollAnswers
  /\ viewer' = [Fetched(viewer, answer) EXCEPT !.fetching = FALSE]
  /\ UNCHANGED <<mounted, panelVars, submitted, sockVars, wsSent, pings, pushed,
                 wsDone, rq, srvTask, lastEvents, lastDelivered, ptc, cancel, serverVars, pageVars>>

\* the request of the poll loop is answered after `took` intervals
ViewerPolled(answer, took) ==
  /\ viewer.pc = "requesting"
  /\ answer \in PollAnswers /\ took \in Latencies
  /\ LET v == [Fetched(viewer, answer) EXCEPT !.elapsed = @ + took]
     IN  viewer' = IF answer /= "status" THEN [v EXCEPT !.pc = "backoff"]
                   ELSE IF v.task \in CompletionStatuses THEN [v EXCEPT !.pc = "idle"]
                   ELSE [v EXCEPT !.pc = "waiting"]
  /\ UNCHANGED <<mounted, panelVars, submitted, sockVars, wsSent, pings, pushed,
                 wsDone, rq, srvTask, lastEvents, lastDelivered, ptc, cancel, serverVars, pageVars>>

\* the timer of the poll loop fires: pollInterval, or five of them after an error
ViewerWaited ==
  /\ viewer.pc \in {"waiting", "backoff"}
  /\ viewer' = ViewerLoop(viewer, viewer.elapsed +
                  (IF viewer.pc = "backoff" THEN ErrorBackoff ELSE 1))
  /\ UNCHANGED <<mounted, panelVars, submitted, sockVars, wsSent, pings, pushed,
                 wsDone, rq, srvTask, lastEvents, lastDelivered, ptc, cancel, serverVars, pageVars>>

\* The Refresh button, rendered while the displayed task is pending or
\* running and the viewer is not polling, calls pollTaskCompletion again.
ViewerRefresh ==
  /\ viewer.pc = "idle" /\ ~isPolling
  /\ viewer.task \in {"pending", "running"}
  /\ viewer.refreshes < MaxRefreshes
  /\ viewer' = ViewerLoop([viewer EXCEPT !.refreshes = @ + 1], 0)
  /\ UNCHANGED <<mounted, panelVars, submitted, sockVars, wsSent, pings, pushed,
                 wsDone, rq, srvTask, lastEvents, lastDelivered, ptc, cancel, serverVars, pageVars>>

\* TaskList selects another task: TaskViewer is rendered again with the new
\* taskId and its effect runs again, without a cleanup of the previous run.
\* fetchTaskStatus() requests the new task; pollTaskCompletion() returns at
\* once when isPolling is set, else starts a loop for the new task.  A loop
\* already running keeps the taskId of the render that started it.
ViewerTaskIdChanges(j) ==
  /\ viewer.pc /= "unmounted"
  /\ j \in Queries /\ j /= viewer.taskId
  /\ srvTask[j].status /= "none"
  /\ viewer.effect = 0 /\ viewer.selections < MaxSelections
  /\ LET v == [viewer EXCEPT !.taskId = j, !.effect = j, !.selections = @ + 1,
                             !.error = ""]
     IN  viewer' = IF isPolling THEN v ELSE ViewerLoop([v EXCEPT !.id = j], 0)
  /\ UNCHANGED <<mounted, panelVars, submitted, sockVars, wsSent, pings, pushed,
                 wsDone, rq, srvTask, lastEvents, lastDelivered, ptc, cancel, serverVars, pageVars>>

\* the request of that run's fetchTaskStatus is answered
ViewerEffectFetched(answer) ==
  /\ viewer.effect /= 0
  /\ answer \in PollAnswers
  /\ viewer' = [FetchedFor(viewer, viewer.effect, answer) EXCEPT !.effect = 0]
  /\ UNCHANGED <<mounted, panelVars, submitted, sockVars, wsSent, pings, pushed,
                 wsDone, rq, srvTask, lastEvents, lastDelivered, ptc, cancel, serverVars, pageVars>>

\* --------------------------------------------------------------- TaskList
\* the options of the status filter; "" is 'All'
Filters == {"", "running", "completed"}

\* taskService.listTasks: the status parameter is sent only for a status that
\* is set
ListRequest(filter) ==
  [status |-> IF Truthy(filter) THEN filter ELSE "undefined", pc |-> "sent"]

\* fetchTasks up to its await, called with the filter of the render that
\* created it
fetchTasks(list, filter) ==
  [list EXCEPT !.isLoading = TRUE, !.error = "",
               !.requests = Append(@, ListRequest(filter))]

\* the first run of the effect: fetchTasks() and the refresh interval
TaskListMount ==
  /\ ~taskList.mounted
  /\ taskList' = fetchTasks([taskList EXCEPT !.mounted = TRUE], taskList.filter)
  /\ UNCHANGED <<clientTaskVars, serverVars, lastSend, browserVars>>

\* The select changes the filter: the effect clears the interval and runs
\* again, fetchTasks() with the new filter and a new interval.  The requests
\* already sent stay in flight.
SetFilter(filter) ==
  /\ taskList.mounted
  /\ filter \in Filters /\ filter /= taskList.filter
  /\ Len(taskList.requests) < MaxListRequests
  /\ taskList' = fetchTasks([taskList EXCEPT !.filter = filter], filter)
  /\ UNCHANGED <<clientTaskVars, serverVars, lastSend, browserVars>>

\* the refresh interval fires (byButton = FALSE), or the Refresh button,
\* disabled while isLoading, is clicked
RefreshList(byButton) ==
  /\ taskList.mounted
  /\ byButton => ~taskList.isLoading
  /\ Len(taskList.requests) < MaxListRequests
  /\ taskList' = fetchTasks(taskList, taskList.filter)
  /\ UNCHANGED <<clientTaskVars, serverVars, lastSend, browserVars>>

\* the response to request n arrives: setTasks, then the finally block
ListAnswered(n) ==
  /\ n \in DOMAIN taskList.requests
  /\ taskList.requests[n].pc = "sent"
  /\ taskList' = [taskList EXCEPT !.requests[n].pc = "answered", !.tasks = n,
                                  !.isLoading = FALSE]
  /\ UNCHANGED <<clientTaskVars, serverVars, lastSend, browserVars>>

\* request n is rejected: the catch block, then the finally block
ListRejected(n) ==
  /\ n \in DOMAIN taskList.requests
  /\ taskList.requests[n].pc = "sent"
  /\ taskList' = [taskList EXCEPT !.requests[n].pc = "failed",
                                  !.error = "Error listing tasks",
                                  !.isLoading = FALSE]
  /\ UNCHANGED <<clientTaskVars, serverVars, lastSend, browserVars>>

NextList ==
  \/ TaskListMount
  \/ \E filter \in Filters : SetFilter(filter)
  \/ \E byButton \in BOOLEAN : RefreshList(byButton)
  \/ \E n \in 1..MaxListRequests : ListAnswered(n)
  \/ \E n \in 1..MaxListRequests : ListRejected(n)

SpecList == Init /\ [][NextList]_vars

\* --------------------------------------------------------- browserService
SessionNames == <<"s1", "s2", "s3">>
SessionIds == Range(SessionNames)

BrowseOps == {"navigate", "extract", "performAction", "amazonSearch"}

\* _getSessionId(providedId): providedId || this.currentSessionId
getSessionId(providedId, stored) == OrElse(providedId, stored)

\* the ids a caller can name: those a returned response has carried
KnownIds == {browserCalls[n].returned.session_id : n \in BrowserCallIds} \ {""}

\* the calls whose request is under way
InFlight == {n \in BrowserCallIds : browserCalls[n].pc \in {"posted", "answered"}}

NextCall == Cardinality({n \in BrowserCallIds : browserCalls[n].pc /= "none"}) + 1

\* navigate, extract, performAction (params.session_id = explicit) and
\* amazonSearch, up to the await: the request is sent
BrowserCall(op, explicit) ==
  /\ NextCall \in BrowserCallIds
  /\ op \in BrowseOps
  /\ explicit \in KnownIds \cup {""}
  /\ op = "amazonSearch" => explicit = ""
  /\ browserCalls' = [browserCalls EXCEPT ![NextCall] =
       [NoBrowserCall EXCEPT !.pc = "posted", !.op = op, !.explicit = explicit,
          !.requested = TRUE,
          !.sent = IF op = "amazonSearch" THEN ""
                   ELSE getSessionId(explicit, currentSessionId)]]
  /\ UNCHANGED <<currentSessionId, sessions, affinity, lastSend, taskList>>
  /\ UNCHANGED <<clientTaskVars, serverVars>>

\* closeSession(session_id) up to the await, or to its early return
CloseSession(explicit) ==
  /\ NextCall \in BrowserCallIds
  /\ explicit \in KnownIds \cup {""}
  /\ LET sessionId == getSessionId(explicit, currentSessionId)
     IN  browserCalls' = [browserCalls EXCEPT ![NextCall] =
           IF ~Truthy(sessionId)
           THEN [NoBrowserCall EXCEPT !.pc = "done", !.op = "closeSession",
                                      !.explicit = explicit]
           ELSE [NoBrowserCall EXCEPT !.pc = "posted", !.op = "closeSession",
                                      !.explicit = explicit, !.requested = TRUE,
                                      !.sent = sessionId]]
  /\ UNCHANGED <<currentSessionId, sessions, affinity, lastSend, taskList>>
  /\ UNCHANGED <<clientTaskVars, serverVars>>

\* The server handles request n.  A browsing request without a session id
\* gets a new session; one that names a live session stays in it; one that
\* names any other session fails.  Closing a live session invalidates it.
ServerHandles(n, success) ==
  /\ n \in BrowserCallIds /\ success \in BOOLEAN
  /\ browserCalls[n].pc = "posted"
  /\ LET c == browserCalls[n]
         fresh == c.op /= "closeSession" /\ c.sent = ""
         id == IF fresh THEN SessionNames[sessions.allocated + 1]
               ELSE IF c.sent \in sessions.live THEN c.sent ELSE ""
     IN  /\ fresh => sessions.allocated < MaxSessions
         /\ IF c.op = "closeSession"
            THEN /\ sessions' = [sessions EXCEPT !.live = @ \ {id}]
                 /\ browserCalls' = [browserCalls EXCEPT ![n].pc = "answered",
                       ![n].reply = [success |-> id /= "", session_id |-> ""]]
            ELSE /\ sessions' = [allocated |-> sessions.allocated + (IF fresh THEN 1 ELSE 0),
                                 live |-> sessions.live \cup ({id} \ {""})]
                 /\ browserCalls' = [browserCalls EXCEPT ![n].pc = "answered",
                       ![n].reply = [success |-> success /\ id /= "", session_id |-> id]]
  /\ UNCHANGED <<currentSessionId, affinity, lastSend, taskList>>
  /\ UNCHANGED <<clientTaskVars, serverVars>>

\* a closeSession that clears the stored id whatever session it closed
CloseClearsAlways(stored, sent, reply) ==
  IF reply.success THEN "" ELSE stored

\* closeSession after its await: the stored id it leaves
CloseClears(stored, sent, reply) ==
  IF reply.success /\ sent = stored THEN "" ELSE stored

\* navigate / extract / performAction / amazonSearch after the await
BrowseStores(stored, reply) ==
  IF Truthy(reply.session_id) THEN reply.session_id ELSE stored

\* the response to request n arrives and the call returns response.data
ResponseArrives(n) ==
  /\ n \in BrowserCallIds
  /\ browserCalls[n].pc = "answered"
  /\ LET c == browserCalls[n]
     IN  /\ currentSessionId' =
              IF c.op = "closeSession" THEN CloseClears(currentSessionId, c.sent, c.reply)
              ELSE BrowseStores(currentSessionId, c.reply)
         /\ browserCalls' = [browserCalls EXCEPT ![n].pc = "done", ![n].returned = c.reply]
         /\ affinity' =
              IF c.op = "closeSession"
              THEN IF c.reply.success
                   THEN [affinity EXCEPT !.open = @ \ {c.sent},
                           !.cleared = IF currentSessionId' /= currentSessionId
                                       THEN @ \cup {c.sent} ELSE @]
                   ELSE affinity
              ELSE IF Truthy(c.reply.session_id)
                   THEN [affinity EXCEPT !.latest = c.reply.session_id,
                                         !.open = @ \cup {c.reply.session_id}]
                   ELSE affinity
  /\ UNCHANGED <<sessions, lastSend, taskList>>
  /\ UNCHANGED <<clientTaskVars, serverVars>>

\* The request fails (no response within 30 s, or an HTTP error): the catch
\* block returns a failure.  The server may have handled the request.
RequestRejected(n) ==
  /\ n \in BrowserCallIds
  /\ browserCalls[n].pc \in {"posted", "answered"}
  /\ browserCalls' = [browserCalls EXCEPT ![n].pc = "done", ![n].rejected = TRUE,
                                          ![n].returned = NoReply]
  /\ UNCHANGED <<currentSessionId, sessions, affinity, lastSend, taskList>>
  /\ UNCHANGED <<clientTaskVars, serverVars>>

\* ------------------------------------------------------ Task state machine
Terminal == {"Completed", "Failed", "Canceled"}

LegalEdges ==
  {<<"Pending", "Running">>, <<"Running", "Completed">>, <<"Running", "Failed">>,
   <<"Pending", "Failed">>, <<"Pending", "Canceled">>, <<"Running", "Canceled">>}

TaskTypes == {"query", "browser"}

\* Create(type, params): a Pending Task
Create(type) == [status |-> "Pending", type |-> type, result |-> "", error |-> ""]

\* a transition that writes its payload to both fields
AppliedToBoth(task, newStatus, payload) ==
  [task EXCEPT !.status = newStatus, !.result = payload, !.error = payload]

\* the Task after a transition: result and error are written only here
Applied(task, newStatus, payload) ==
  [task EXCEPT !.status = newStatus,
               !.result = IF newStatus = "Completed" THEN payload ELSE "",
               !.error = IF newStatus = "Failed" THEN payload ELSE ""]

\* a Transition that lets the last writer win
TransitionOverwrites(reg, id, newStatus, payload) ==
  IF reg[id].status /= "Absent"
  THEN [reply |-> "ok", registry |-> [reg EXCEPT ![id] = Applied(@, newStatus, payload)]]
  ELSE [reply |-> "conflict", registry |-> reg]

\* Transition(id, newStatus, result|error) -> Task | Conflict
Transition(reg, id, newStatus, payload) ==
  IF <<reg[id].status, newStatus>> \in LegalEdges
  THEN [reply |-> "ok", registry |-> [reg EXCEPT ![id] = Applied(@, newStatus, payload)]]
  ELSE [reply |-> "conflict", registry |-> reg]

\* a Dispatcher that notifies the Gateway whatever Transition answered
CommitNotifyingAlways(id, newStatus, t) ==
  /\ registry' = t.registry
  /\ history' = IF t.reply = "ok" THEN [history EXCEPT ![id] = Append(@, newStatus)]
                 ELSE history
  /\ request' = [id |-> id, from |-> registry[id].status, to |-> newStatus,
                  reply |-> t.reply]
  /\ outbox' = IF channel = "open"
                THEN Append(outbox, [id |-> id, status |-> newStatus]) ELSE outbox

\* The Dispatcher performs the Transition and then notifies the Gateway, which
\* queues one message for the open channel; both happen under the per-id
\* exclusion, so notifications of one id are queued in commit order.
Commit(id, newStatus, t) ==
  /\ registry' = t.registry
  /\ history' = IF t.reply = "ok" THEN [history EXCEPT ![id] = Append(@, newStatus)]
                 ELSE history
  /\ request' = [id |-> id, from |-> registry[id].status, to |-> newStatus,
                  reply |-> t.reply]
  /\ outbox' = IF t.reply = "ok" /\ channel = "open"
                THEN Append(outbox, [id |-> id, status |-> newStatus]) ELSE outbox

\* -------------------------------------------------- Dispatcher, Worker Pool
\* Submit(type, params) -> taskId: creates the Task and enqueues it
Submit(type) ==
  /\ phase = "up"
  /\ nextId < MaxTasks
  /\ type \in TaskTypes
  /\ nextId' = nextId + 1
  /\ registry' = [registry EXCEPT ![nextId + 1] = Create(type)]
  /\ history' = [history EXCEPT ![nextId + 1] = <<"Pending">>]
  /\ queue' = Append(queue, nextId + 1)
  /\ request' = NoRequest
  /\ UNCHANGED <<worker, callbacks, tally, gatewayVars, recoveryVars, clientVars>>

\* the pool assigns a free slot to the head of the queue: Pending -> Running
Assign(w) ==
  /\ phase = "up"
  /\ w \in Workers
  /\ worker[w].task = 0
  /\ queue /= <<>>
  /\ LET id == Head(queue)
         t == Transition(registry, id, "Running", "")
     IN  /\ Commit(id, "Running", t)
         /\ worker' = IF t.reply = "ok" THEN [worker EXCEPT ![w].task = id] ELSE worker
  /\ queue' = Tail(queue)
  /\ UNCHANGED <<nextId, callbacks, tally, channel, received, recoveryVars, clientVars>>

\* what the opaque agent function hands back: a result or a raised failure
Outcomes == {[status |-> "Completed", payload |-> "4"],
             [status |-> "Failed", payload |-> "agent raised"]}

\* the worker's function returns or raises; its callback goes to the Dispatcher
WorkerReturns(w, outcome) ==
  /\ phase = "up"
  /\ w \in Workers /\ outcome \in Outcomes
  /\ worker[w].task /= 0 /\ ~worker[w].returned /\ worker[w].alive
  /\ callbacks' = callbacks \cup
       {[id |-> worker[w].task, status |-> outcome.status, payload |-> outcome.payload]}
  /\ worker' = [worker EXCEPT ![w].returned = TRUE]
  /\ request' = NoRequest
  /\ UNCHANGED <<registry, nextId, queue, history, tally, gatewayVars, recoveryVars, clientVars>>

\* the pool's watchdog gives up on a busy slot and reports the Task failed
TimeoutDetected(w) ==
  /\ phase = "up"
  /\ w \in Workers
  /\ worker[w].task /= 0 /\ ~worker[w].timedOut
  /\ callbacks' = callbacks \cup
       {[id |-> worker[w].task, status |-> "Failed", payload |-> "timeout"]}
  /\ worker' = [worker EXCEPT ![w].timedOut = TRUE]
  /\ request' = NoRequest
  /\ UNCHANGED <<registry, nextId, queue, history, tally, gatewayVars, recoveryVars, clientVars>>

\* the slots bound to id return to the idle set
Released(id) == [w \in Workers |-> IF worker[w].task = id THEN Idle ELSE worker[w]]

\* Worker completion callback: the Dispatcher performs the Transition; a
\* callback for an edge that is not legal is rejected as a conflict.
CompletionCallback(cb) ==
  /\ phase = "up"
  /\ cb \in callbacks
  /\ LET t == Transition(registry, cb.id, cb.status, cb.payload)
     IN  /\ Commit(cb.id, cb.status, t)
         /\ tally' = IF t.reply = "ok"
                      THEN [tally EXCEPT ![cb.id].accepted = @ + 1,
                                         ![cb.id].written = Append(@, cb)]
                      ELSE [tally EXCEPT ![cb.id].conflicts = @ + 1]
  /\ callbacks' = callbacks \ {cb}
  /\ worker' = Released(cb.id)
  /\ UNCHANGED <<nextId, queue, channel, received, recoveryVars, clientVars>>

\* a Cancel that leaves the canceled Task in the pool's queue
CancelKeepsQueued(id) ==
  /\ phase = "up"
  /\ id \in TaskIds
  /\ registry[id].status \in {"Pending", "Running"}
  /\ IF registry[id].status = "Pending"
     THEN /\ Commit(id, "Canceled", Transition(registry, id, "Canceled", ""))
          /\ UNCHANGED <<queue, worker>>
     ELSE /\ \E w \in Workers : worker[w].task = id /\ ~worker[w].stopping
          /\ worker' = [w \in Workers |->
                          IF worker[w].task = id THEN [worker[w] EXCEPT !.stopping = TRUE]
                          ELSE worker[w]]
          /\ request' = NoRequest
          /\ UNCHANGED <<registry, history, queue, outbox>>
  /\ UNCHANGED <<nextId, callbacks, tally, channel, received, recoveryVars, clientVars>>

\* Cancel(taskId): a Pending Task has no worker bound and is canceled at once;
\* for a Running Task the pool is asked to interrupt the worker.
Cancel(id) ==
  /\ phase = "up"
  /\ id \in TaskIds
  /\ registry[id].status \in {"Pending", "Running"}
  /\ IF registry[id].status = "Pending"
     THEN /\ Commit(id, "Canceled", Transition(registry, id, "Canceled", ""))
          /\ queue' = SelectSeq(queue, LAMBDA q : q /= id)
          /\ UNCHANGED worker
     ELSE /\ \E w \in Workers : worker[w].task = id /\ ~worker[w].stopping
          /\ worker' = [w \in Workers |->
                          IF worker[w].task = id THEN [worker[w] EXCEPT !.stopping = TRUE]
                          ELSE worker[w]]
          /\ request' = NoRequest
          /\ UNCHANGED <<registry, history, queue, outbox>>
  /\ UNCHANGED <<nextId, callbacks, tally, channel, received, recoveryVars, clientVars>>

\* the pool confirms that the worker has stopped: Running -> Canceled
CancelConfirmed(w) ==
  /\ phase = "up"
  /\ w \in Workers
  /\ worker[w].task /= 0 /\ worker[w].stopping
  /\ Commit(worker[w].task, "Canceled",
            Transition(registry, worker[w].task, "Canceled", ""))
  /\ worker' = Released(worker[w].task)
  /\ UNCHANGED <<nextId, queue, callbacks, tally, channel, received, recoveryVars, clientVars>>

\* --------------------------------------------------- process-isolated pool
DeathReason == "worker process died"

\* the OS process of an isolated worker is killed while its Task is in flight
WorkerDies(w) ==
  /\ phase = "up"
  /\ w \in Workers
  /\ worker[w].task /= 0 /\ worker[w].alive
  /\ registry[worker[w].task].type = "browser"
  /\ worker' = [worker EXCEPT ![w].alive = FALSE]
  /\ request' = NoRequest
  /\ UNCHANGED <<registry, nextId, queue, callbacks, history, tally, gatewayVars,
                 recoveryVars, clientVars>>

\* a heartbeat check that fails the Task and keeps the dead handle in its slot
HeartbeatKeepsSlot(w) ==
  /\ phase = "up"
  /\ w \in Workers
  /\ worker[w].task /= 0 /\ ~worker[w].alive
  /\ Commit(worker[w].task, "Failed",
            Transition(registry, worker[w].task, "Failed", DeathReason))
  /\ UNCHANGED <<worker, nextId, queue, callbacks, tally, channel, received, recoveryVars,
                 clientVars>>

\* The heartbeat interval of a slot ends without a heartbeat: the pool
\* converts the in-flight Task to Failed, joins the process and returns the
\* slot to the idle set.
Heartbeat(w) ==
  /\ phase = "up"
  /\ w \in Workers
  /\ worker[w].task /= 0 /\ ~worker[w].alive
  /\ Commit(worker[w].task, "Failed",
            Transition(registry, worker[w].task, "Failed", DeathReason))
  /\ worker' = Released(worker[w].task)
  /\ UNCHANGED <<nextId, queue, callbacks, tally, channel, received, recoveryVars, clientVars>>

\* Cleanup(maxAge): a terminal Task that is old enough is removed
Cleanup(id) ==
  /\ phase = "up"
  /\ id \in TaskIds
  /\ registry[id].status \in Terminal
  /\ registry' = [registry EXCEPT ![id] = Absent]
  /\ request' = NoRequest
  /\ UNCHANGED <<nextId, queue, worker, callbacks, history, tally, gatewayVars,
                 recoveryVars, clientVars>>

\* ---------------------------------------------------- persistence, recovery
OrphanReason == "orphaned on restart"

\* the Registry writes a snapshot of all its Tasks to durable storage
Snapshot ==
  /\ phase = "up"
  /\ snapshot /= registry
  /\ snapshot' = registry
  /\ request' = NoRequest
  /\ UNCHANGED <<registry, nextId, queue, worker, callbacks, history, tally,
                 gatewayVars, phase, crashes, clientVars>>

\* The server process dies: the in-memory Registry, the pool's handles, the
\* queued work and the channels are gone; the snapshot stays.
Crash ==
  /\ phase = "up"
  /\ crashes < MaxCrashes
  /\ crashes' = crashes + 1
  /\ phase' = "down"
  /\ registry' = [id \in TaskIds |-> Absent]
  /\ queue' = <<>>
  /\ worker' = [w \in Workers |-> Idle]
  /\ callbacks' = {}
  /\ channel' = "closed"
  /\ outbox' = <<>>
  /\ request' = NoRequest
  /\ UNCHANGED <<nextId, history, tally, received, snapshot, clientVars>>

\* process start: the Registry is empty, so the snapshot is loaded wholesale
Reload ==
  /\ phase = "down"
  /\ registry = [id \in TaskIds |-> Absent]
  /\ registry' = snapshot
  /\ phase' = "loaded"
  /\ request' = NoRequest
  /\ UNCHANGED <<nextId, queue, worker, callbacks, history, tally, gatewayVars,
                 snapshot, crashes, clientVars>>

\* a Task is bound to a live worker
HasLiveWorker(pool, id) == \E w \in Workers : pool[w].task = id /\ pool[w].alive

\* a recovery pass that fails only the Tasks recovered as Running
RecoveryPassRunningOnly(reg, pool) ==
  [id \in TaskIds |->
     IF reg[id].status = "Running" /\ ~HasLiveWorker(pool, id)
     THEN Transition(reg, id, "Failed", OrphanReason).registry[id]
     ELSE reg[id]]

\* One recovery pass: every Task recovered as Pending or Running whose worker
\* is gone is marked Failed with the orphan reason.
RecoveryPass(reg, pool) ==
  [id \in TaskIds |->
     IF reg[id].status \in {"Pending", "Running"} /\ ~HasLiveWorker(pool, id)
     THEN Transition(reg, id, "Failed", OrphanReason).registry[id]
     ELSE reg[id]]

\* the recovery pass runs before submissions are accepted
Recover ==
  /\ phase = "loaded"
  /\ registry' = RecoveryPass(registry, worker)
  /\ history' = [id \in TaskIds |->
                    IF registry'[id] /= registry[id] THEN Append(history[id], "Failed")
                    ELSE history[id]]
  /\ phase' = "up"
  /\ request' = NoRequest
  /\ UNCHANGED <<nextId, queue, worker, callbacks, tally, gatewayVars, snapshot,
                 crashes, clientVars>>

\* ------------------------------------------------------- Transport Gateway
registryVars == <<registry, nextId, queue, worker, callbacks, history, tally>>

\* a client opens the push channel
ChannelOpens ==
  /\ phase = "up"
  /\ channel = "closed"
  /\ channel' = "open"
  /\ request' = NoRequest
  /\ UNCHANGED <<registryVars, outbox, received, recoveryVars, clientVars>>

\* the channel is destroyed on disconnect, with what was queued for it
ChannelCloses ==
  /\ phase = "up"
  /\ channel = "open"
  /\ channel' = "closed"
  /\ outbox' = <<>>
  /\ request' = NoRequest
  /\ UNCHANGED <<registryVars, received, recoveryVars, clientVars>>

\* the Gateway pushes the oldest queued notification over the channel
Push ==
  /\ phase = "up"
  /\ channel = "open" /\ outbox /= <<>>
  /\ received' = [received EXCEPT ![Head(outbox).id] = Append(@, Head(outbox).status)]
  /\ outbox' = Tail(outbox)
  /\ request' = NoRequest
  /\ UNCHANGED <<registryVars, channel, recoveryVars, clientVars>>

\* Polling: Get(id), the current Task snapshot
Poll(id) == registry[id]

\* --------------------------------------------------------- specifications
\* statuses GET /run/task/{id} reports in the panel specification
PanelStatuses == {"completed", "error"}

AllResults == UNION {Results(q) : q \in Inputs} \cup {NoResult}

SocketNext ==
  \/ ConnectionTimeout
  \/ WsOpen
  \/ WsFail
  \/ \E code \in CloseCodes : WsClose(code)
  \/ \E r \in PushFrames : WsMessage(r)
  \/ PingTick

Next ==
  \/ \E constructed \in BOOLEAN : Mount(constructed)
  \/ SocketNext
  \/ \E input \in Inputs : handleSubmit(input)
  \/ \E i \in Queries, answer \in PostAnswers : RunQueryStarted(i, answer)
  \/ \E i \in Queries, st \in PanelStatuses, result \in AllResults :
       TaskFinished(i, st, result, PanelStatuses)
  \/ \E i \in Queries, answer \in PollAnswers : RunQueryPolled(i, answer, MaxTaskPolls)

Spec == Init /\ [][Next]_vars

\* The polling transport on its own: the socket never opens, every query is
\* posted, and the server's task may take any number of polls and end in any
\* terminal status.
NextPoll ==
  \/ \E constructed \in BOOLEAN : Mount(constructed)
  \/ \E input \in Inputs : submitted < MaxPollCalls /\ handleSubmit(input)
  \/ \E i \in Queries, answer \in PostAnswers : RunQueryStarted(i, answer)
  \/ \E i \in Queries, st \in TerminalStatuses, result \in AllResults :
       TaskFinished(i, st, result, TerminalStatuses)
  \/ \E i \in Queries, answer \in PollAnswers : RunQueryPolled(i, answer, maxRetries)

SpecPoll == Init /\ [][NextPoll]_vars

\* The task service next to the polling transport: no socket can be
\* constructed, and pollTaskCompletion and cancelTask are called on the ids
\* the server has handed out.
NextTasks ==
  \/ Mount(FALSE)
  \/ \E input \in Inputs : submitted < MaxPollCalls /\ handleSubmit(input)
  \/ \E i \in Queries, answer \in PostAnswers : RunQueryStarted(i, answer)
  \/ \E i \in Queries, st \in TerminalStatuses, result \in {NoResult, Result("4", <<>>)} :
       TaskFinished(i, st, result, TerminalStatuses)
  \/ \E i \in Queries, answer \in PollAnswers : RunQueryPolled(i, answer, maxRetries)
  \/ \E i \in Queries, timeout \in PollTimeouts : PollTaskCompletion(i, timeout)
  \/ \E answer \in PollAnswers, took \in Latencies : PollAnswered(answer, took)
  \/ PollWaited
  \/ \E i \in Queries, reason \in Reasons : CancelTask(i, reason)
  \/ \E answer \in CancelAnswers : CancelAnswered(answer)

SpecTasks == Init /\ [][NextTasks]_vars

\* Giving up: a task that takes long, followed by runQuery, pollTaskCompletion
\* and a TaskViewer, with the Cancel button at hand.
NextGiveUp ==
  \/ Mount(FALSE)
  \/ \E input \in Inputs : submitted < MaxPollCalls /\ handleSubmit(input)
  \/ \E i \in Queries : RunQueryStarted(i, "task_id")
  \/ \E i \in Queries : TaskFinished(i, "completed", Result("4", <<>>), {"completed"})
  \/ \E i \in Queries : RunQueryPolled(i, "status", maxRetries)
  \/ \E i \in Queries, timeout \in PollTimeouts : PollTaskCompletion(i, timeout)
  \/ \E took \in Latencies : PollAnswered("status", took)
  \/ PollWaited
  \/ \E i \in Queries, duration \in PollTimeouts : ViewerMount(i, duration)
  \/ \E answer \in PollAnswers : ViewerFetched(answer)
  \/ \E answer \in PollAnswers, took \in Latencies : ViewerPolled(answer, took)
  \/ ViewerWaited
  \/ ViewerRefresh
  \/ \E i \in Queries : CancelTask(i, "")
  \/ \E answer \in {"success", "no_response"} : CancelAnswered(answer)

SpecGiveUp == Init /\ [][NextGiveUp]_vars

\* TaskViewer under TaskList: two tasks on the server, one of them selected,
\* then the other.
NextViewer ==
  \/ Mount(FALSE)
  \/ \E input \in Inputs : handleSubmit(input)
  \/ \E i \in Queries : RunQueryStarted(i, "task_id")
  \/ \E i \in Queries : TaskFinished(i, "completed", Result("4", <<>>), {"completed"})
  \/ \E i \in Queries : RunQueryPolled(i, "status", MaxTaskPolls)
  \/ \E i \in Queries : ViewerMount(i, MaxTimeout)
  \/ \E answer \in PollAnswers : ViewerFetched(answer)
  \/ \E answer \in PollAnswers, took \in Latencies : ViewerPolled(answer, took)
  \/ ViewerWaited
  \/ \E j \in Queries : ViewerTaskIdChanges(j)
  \/ \E answer \in PollAnswers : ViewerEffectFetched(answer)

SpecViewer == Init /\ [][NextViewer]_vars

\* The server during one lifetime of its process.
NextServer ==
  \/ \E type \in TaskTypes : Submit(type)
  \/ \E w \in Workers : Assign(w)
  \/ \E w \in Workers, outcome \in Outcomes : WorkerReturns(w, outcome)
  \/ \E w \in Workers : TimeoutDetected(w)
  \/ \E cb \in callbacks : CompletionCallback(cb)
  \/ \E id \in TaskIds : Cancel(id)
  \/ \E w \in Workers : CancelConfirmed(w)
  \/ \E id \in TaskIds : Cleanup(id)
  \/ ChannelOpens
  \/ ChannelCloses
  \/ Push

SpecServer == Init /\ [][NextServer]_vars

\* The server with its snapshot, a crash of the process and the restart.
NextRecovery ==
  \/ \E type \in TaskTypes : Submit(type)
  \/ \E w \in Workers : Assign(w)
  \/ \E w \in Workers, outcome \in Outcomes : WorkerReturns(w, outcome)
  \/ \E cb \in callbacks : CompletionCallback(cb)
  \/ \E id \in TaskIds : Cancel(id)
  \/ \E w \in Workers : CancelConfirmed(w)
  \/ \E id \in TaskIds : Cleanup(id)
  \/ Snapshot
  \/ Crash
  \/ Reload
  \/ Recover

SpecRecovery == Init /\ [][NextRecovery]_vars

\* The process-isolated pool: the worker process of a browser Task may be
\* killed at any time while the Task is in flight.
NextPool ==
  \/ \E type \in TaskTypes : Submit(type)
  \/ \E w \in Workers : Assign(w)
  \/ \E w \in Workers, outcome \in Outcomes : WorkerReturns(w, outcome)
  \/ \E w \in Workers : TimeoutDetected(w)
  \/ \E cb \in callbacks : CompletionCallback(cb)
  \/ \E id \in TaskIds : Cancel(id)
  \/ \E w \in Workers : CancelConfirmed(w)
  \/ \E w \in Workers : WorkerDies(w)
  \/ \E w \in Workers : Heartbeat(w)

SpecPool == Init /\ [][NextPool]_vars

\* the heartbeat timer of every slot fires, queued callbacks are run and the
\* pool confirms the cancellations it was asked for
FairPool ==
  /\ SpecPool
  /\ \A w \in Workers : WF_vars(Heartbeat(w))
  /\ \A w \in Workers : WF_vars(CancelConfirmed(w))
  /\ WF_vars(\E cb \in callbacks : CompletionCallback(cb))

\* every HTTP request is answered or rejected (axios timeout), every timer fires
FairTasks ==
  /\ SpecTasks
  /\ WF_vars(\E i \in Queries, answer \in PostAnswers : RunQueryStarted(i, answer))
  /\ WF_vars(\E i \in Queries, answer \in PollAnswers : RunQueryPolled(i, answer, maxRetries))
  /\ WF_vars(\E answer \in PollAnswers, took \in Latencies : PollAnswered(answer, took))
  /\ WF_vars(PollWaited)
  /\ WF_vars(\E answer \in CancelAnswers : CancelAnswered(answer))

\* The push transport on its own: the user submits only while the socket is
\* open, so every query goes over the socket and none is posted.
NextPush ==
  \/ \E constructed \in BOOLEAN : Mount(constructed)
  \/ SocketNext
  \/ \E input \in Inputs : readyState = OPEN /\ handleSubmit(input)

SpecPush == Init /\ [][NextPush]_vars

\* Keepalive: the socket with its timers and the send functions called in
\* every state of the socket.
NextKeepalive ==
  \/ \E constructed \in BOOLEAN : Mount(constructed)
  \/ SocketNext
  \/ \E kind \in SendKinds : CallSend(kind)

SpecKeepalive == Init /\ [][NextKeepalive]_vars

FairKeepalive == SpecKeepalive /\ WF_vars(ConnectionTimeout) /\ WF_vars(PingTick)

\* browserService used as BrowserTest uses it: every call is awaited before
\* the next one is made.
NextBrowser ==
  \/ \E op \in BrowseOps, explicit \in SessionIds \cup {""} :
       InFlight = {} /\ BrowserCall(op, explicit)
  \/ \E explicit \in SessionIds \cup {""} : InFlight = {} /\ CloseSession(explicit)
  \/ \E n \in BrowserCallIds, success \in BOOLEAN : ServerHandles(n, success)
  \/ \E n \in BrowserCallIds : ResponseArrives(n)
  \/ \E n \in BrowserCallIds : RequestRejected(n)

SpecBrowser == Init /\ [][NextBrowser]_vars

\* browserService called by any number of callers: requests overlap and
\* their responses arrive in any order.
NextBrowserRace ==
  \/ \E op \in BrowseOps, explicit \in SessionIds \cup {""} : BrowserCall(op, explicit)
  \/ \E explicit \in SessionIds \cup {""} : CloseSession(explicit)
  \/ \E n \in BrowserCallIds, success \in BOOLEAN : ServerHandles(n, success)
  \/ \E n \in BrowserCallIds : ResponseArrives(n)
  \/ \E n \in BrowserCallIds : RequestRejected(n)

SpecBrowserRace == Init /\ [][NextBrowserRace]_vars

\* Timers fire and pending HTTP requests are answered; socket events, pushes
\* of the server and submissions of the user are not promised.
Fairness ==
  /\ WF_vars(ConnectionTimeout)
  /\ WF_vars(PingTick)
  /\ WF_vars(\E i \in Queries, answer \in PostAnswers : RunQueryStarted(i, answer))
  /\ WF_vars(\E i \in Queries, st \in PanelStatuses, result \in AllResults :
               TaskFinished(i, st, result, PanelStatuses))
  /\ WF_vars(\E i \in Queries, answer \in PollAnswers : RunQueryPolled(i, answer, MaxTaskPolls))

FairSpec == Spec /\ Fairness

\* the push transport with its timers
FairPush == SpecPush /\ WF_vars(ConnectionTimeout) /\ WF_vars(PingTick)

\* ------------------------------------------------------------------ claims
Count(m, msgs) == Cardinality({i \in 1..Len(msgs) : msgs[i] = m})

ErrorFrames(frames) == SelectSeq(frames, LAMBDA f : f.type = "error")

ErrorEntries(msgs) == SelectSeq(msgs, LAMBDA m : m.role = "error")

RECURSIVE IsSubsequence(_, _)
IsSubsequence(a, b) ==
  IF a = <<>> THEN TRUE
  ELSE IF b = <<>> THEN FALSE
  ELSE IF Head(a) = Head(b) THEN IsSubsequence(Tail(a), Tail(b))
  ELSE IsSubsequence(a, Tail(b))

\* C1: before the socket's first open no frame of type 'error' is handed to
\* onMessage, whatever happened (error, close, connection timeout, failure to
\* construct the socket).
C1_NoErrorBeforeFirstOpen ==
  ~hasConnected => ErrorFrames(lastDelivered) = <<>>

\* C2: merging the chat history of a completed result appends no message
\* whose role and content equal those of a message already displayed: every
\* displayed message is displayed as often after the merge as before.
HistoryMerged ==
  /\ Len(lastDelivered) = 1
  /\ lastDelivered[1].type = "status"
  /\ lastDelivered[1].status = "completed"
  /\ lastDelivered[1].result.present
  /\ Len(lastDelivered[1].result.chat_history) > 0

C2_MergeAppendsNoDuplicate ==
  [][HistoryMerged' =>
       \A m \in Range(WithoutLoading(messages)) : Count(m, messages') = Count(m, messages)]_vars

\* C3: the poll loop of runQuery stops as soon as a status request reports a
\* terminal status (completed, failed/error, canceled).
C3_PollStopsAtTerminal ==
  \A i \in Queries : rq[i].seen \in TerminalStatuses => rq[i].pc = "done"

\* C4: when the channel stops being open before the terminal status of a
\* query sent over it was delivered, the panel eventually renders the
\* outcome of every submitted query and leaves the loading state.
ChannelLostQuery ==
  /\ wsRef = "ws"
  /\ readyState \in {CLOSING, CLOSED}
  /\ Len(wsDone) < WsQueries

C4_ClosedChannelRecovers ==
  ChannelLostQuery ~> (~loading /\ outcomes >= submitted)

\* C5: one abnormal disconnection of an opened socket (a close event with a
\* code other than 1000, with or without its error event) adds exactly one
\* error entry to the conversation.
AbnormalDisconnect ==
  /\ hasConnected
  /\ \E e \in Range(lastEvents) : e.kind = "close" /\ e.code /= NormalClosure

C5_OneErrorPerAbnormalClose ==
  [][AbnormalDisconnect' =>
       Len(ErrorEntries(messages')) = Len(ErrorEntries(messages)) + 1]_vars

\* C6: once the socket has opened, every later error event and every later
\* close event with a code other than 1000 hands one 'error' frame to
\* onMessage, and a close event with code 1000 hands none.
Surfaced(events) ==
  SelectSeq(events, LAMBDA e : e.kind = "error" \/ (e.kind = "close" /\ e.code /= NormalClosure))

Disconnecting(events) ==
  events /= <<>> /\ \A e \in Range(events) : e.kind \in {"error", "close"}

C6_SurfacedAfterOpen ==
  [][(hasConnected /\ Disconnecting(lastEvents')) =>
       /\ Len(lastDelivered') = Len(Surfaced(lastEvents'))
       /\ ErrorFrames(lastDelivered') = lastDelivered']_vars

C6_Witness ==
  /\ hasConnected
  /\ lastEvents = <<Event("error", 0), Event("close", 1006)>>
  /\ Len(lastDelivered) = 2

\* C7: after the manager has become disconnected it eventually re-enters
\* Connecting.
Disconnected == wsRef = "ws" /\ readyState = CLOSED

C7_DisconnectedReconnects ==
  Disconnected ~> (wsRef = "ws" /\ readyState = CONNECTING)

\* C8: handling 'connected' retracts exactly the displayed transport errors:
\* no entry reporting a WebSocket failure is left and every other message is
\* still there, in its order.
TransportErrorTexts ==
  { "Failed to connect to the server via WebSocket. Falling back to HTTP API.",
    "WebSocket connection error. Some features may not work properly.",
    "Failed to establish WebSocket connection. Using HTTP API instead." }
  \cup { ClosedText(code) : code \in CloseCodes }

IsTransportError(m) == m.role = "error" /\ m.content \in TransportErrorTexts

ConnectedHandled ==
  /\ Len(lastDelivered) = 1
  /\ lastDelivered[1].type = "system"
  /\ lastDelivered[1].status = "connected"

C8_ConnectedRetractsTransportErrors ==
  [][ConnectedHandled' =>
       messages' = SelectSeq(messages, LAMBDA m : ~IsTransportError(m))]_vars

\* C9: every submitted query is rendered with one outcome at most, also when
\* its terminal status is delivered more than once.
C9_OneOutcomePerQuery == outcomes <= submitted

\* C10: when a query completes over the polling transport, every message
\* displayed before, the loading bubble apart, is still displayed, in the
\* same relative order.
RestCompletes ==
  \E i \in Queries : rq[i].pc = "polling" /\ rq'[i].pc = "done" /\ rq'[i].raised = ""

C10_RestCompletionKeepsMessages ==
  [][RestCompletes => IsSubsequence(WithoutLoading(messages), messages')]_vars

\* C11: every submission accepted by handleSubmit goes over exactly one
\* transport: one query frame on the socket when the socket is OPEN, else one
\* POST of runQuery; no other step sends a query or starts a POST.
Posted == Cardinality({i \in Queries : rq[i].pc /= "none"})

SubmissionAccepted == submitted' = submitted + 1

C11_OneTransportPerSubmission ==
  [][IF SubmissionAccepted
     THEN IF wsRef = "ws" /\ readyState = OPEN
          THEN WsQueries' = WsQueries + 1 /\ Posted' = Posted
          ELSE WsQueries' = WsQueries /\ Posted' = Posted + 1
     ELSE WsQueries' = WsQueries /\ Posted' = Posted]_vars

C11_Witness == submitted = 2 /\ WsQueries = 1 /\ Posted = 1

\* C12: client polling terminates: runQuery issues at most 60 status requests,
\* pollTaskCompletion issues no status request once its timeout has elapsed,
\* both calls end, and a call that saw no terminal status and no failed
\* request ends with its timeout error.
RunQueryBounded ==
  \A i \in Queries :
    /\ rq[i].retries <= maxRetries
    /\ (rq[i].pc = "done" /\ rq[i].retries > 0 /\ rq[i].raised /= "no_response"
          /\ rq[i].seen \notin TerminalStatuses)
        => rq[i].raised = "Task timed out after 60 seconds"

PollCompletionTimesOut ==
  (ptc.pc = "done" /\ ptc.raised /= "no_response" /\ ptc.seen \notin TerminalStatuses)
    => ptc.raised = "Task polling timed out"

NoRequestAfterTimeout == ptc'.requests > ptc.requests => ptc'.elapsed < ptc'.timeout

C12_PollingTerminates ==
  /\ [](RunQueryBounded /\ PollCompletionTimesOut)
  /\ [][NoRequestAfterTimeout]_vars
  /\ \A i \in Queries : (rq[i].pc = "polling") ~> (rq[i].pc = "done")
  /\ (ptc.pc \in {"requesting", "waiting"}) ~> (ptc.pc = "done")

C12_Witness ==
  /\ rq[1].pc = "done" /\ rq[1].retries = maxRetries
  /\ rq[1].raised = "Task timed out after 60 seconds"
  /\ ptc.pc = "done" /\ ptc.requests = 2 /\ ptc.raised = "Task polling timed out"

\* C13: a poll loop that gives up (runQuery after 60 requests,
\* pollTaskCompletion and TaskViewer after their timeout) sends no cancel
\* request and leaves the server's task as it is.
RunQueryGivesUp ==
  \E i \in Queries : rq[i].pc = "polling"
                      /\ rq'[i].raised = "Task timed out after 60 seconds"

PollCompletionGivesUp == ptc.pc /= "done" /\ ptc'.raised = "Task polling timed out"

ViewerGivesUp == viewer.pc /= "requesting" /\ viewer' /= viewer /\ viewer'.pc = "idle"

C13_GivingUpLeavesTask ==
  [][(RunQueryGivesUp \/ PollCompletionGivesUp \/ ViewerGivesUp)
       => (cancel' = cancel /\ srvTask' = srvTask)]_vars

\* all three have given up, no cancel was sent, the task completed afterwards
\* and the refreshed viewer displays it
C13_Witness ==
  /\ rq[1].raised = "Task timed out after 60 seconds"
  /\ ptc.raised = "Task polling timed out" /\ ptc.requests > 0
  /\ viewer.refreshes = 1 /\ viewer.task = "completed"
  /\ cancel.sent = 0
  /\ srvTask[1].status = "completed"

\* C14: cancelTask never raises; it resolves to success exactly when the
\* server answered the cancel request with a 2xx response whose body does not
\* carry status 'error'.
AnsweredWithoutError(answer) == answer \in {"success", "success_false"}

C14_CancelNeverRaises ==
  cancel.pc = "done" =>
    /\ ~cancel.raised
    /\ cancel.success <=> AnsweredWithoutError(cancel.answer)

C14_Witness ==
  cancel.pc = "done" /\ cancel.success /\ cancel.answer = "success"
    /\ srvTask[cancel.id].status = "canceled"

\* C15: the status of a Task changes only along the edges of the state
\* machine; a Transition request for any other edge is answered with a
\* conflict and leaves the Registry as it was.
StatusChanges(id) ==
  /\ registry[id].status /= "Absent" /\ registry'[id].status /= "Absent"
  /\ registry'[id].status /= registry[id].status

C15_OnlyLegalEdges ==
  [][/\ \A id \in TaskIds :
          StatusChanges(id) => <<registry[id].status, registry'[id].status>> \in LegalEdges
     /\ (request'.reply /= "" /\ <<request'.from, request'.to>> \notin LegalEdges)
          => (request'.reply = "conflict" /\ registry' = registry)]_vars

\* a completion of an already canceled Task has been rejected
C15_Witness ==
  /\ request.reply = "conflict" /\ request.from = "Canceled" /\ request.to = "Completed"
  /\ registry[request.id].status = "Canceled"

\* C16: of the completion callbacks that race for one Task at most one is
\* accepted; when two have run for a Task that was not canceled, one was
\* accepted and one rejected as a conflict, and the Task carries the status
\* and the result or error of the accepted one.
WrittenBy(task, cb) ==
  /\ task.status = cb.status
  /\ task.result = (IF cb.status = "Completed" THEN cb.payload ELSE "")
  /\ task.error = (IF cb.status = "Failed" THEN cb.payload ELSE "")

Pos(st, hist) ==
  IF st \in Range(hist) THEN CHOOSE i \in 1..Len(hist) : hist[i] = st ELSE 0

C17_PushAfterCommit ==
  /\ \A i \in 1..Len(outbox) : outbox[i].status \in Range(history[outbox[i].id])
  /\ \A id \in TaskIds :
       /\ IsSubsequence(received[id], history[id])
       /\ (received[id] /= <<>> /\ Poll(id) /= Absent)
            => /\ Pos(Poll(id).status, history[id]) > 0
               /\ Pos(Poll(id).status, history[id])
                    >= Pos(received[id][Len(received[id])], history[id])

\* the client was pushed Running and Completed of Task 1, in that order
C17_Witness ==
  /\ received[1] = <<"Running", "Completed">>
  /\ Poll(1).status = "Completed"

\* C18: a Task has a result exactly when it is Completed and an error exactly
\* when it is Failed, and a terminal Task keeps all its fields until Cleanup
\* deletes it.
ResultIffCompleted ==
  \A id \in TaskIds :
    registry[id] /= Absent =>
      /\ registry[id].result /= "" <=> registry[id].status = "Completed"
      /\ registry[id].error /= "" <=> registry[id].status = "Failed"

TerminalIsFrozen ==
  \A id \in TaskIds :
    registry[id].status \in Terminal
      => (registry'[id] = registry[id] \/ registry'[id] = Absent)

C18_TerminalTaskImmutable == []ResultIffCompleted /\ [][TerminalIsFrozen]_vars

\* a Completed and a Failed Task, each after a rejected second write
C18_Witness ==
  /\ registry[1].status = "Completed" /\ registry[1].result = "4" /\ tally[1].conflicts = 1
  /\ registry[2].status = "Failed" /\ registry[2].error /= "" /\ tally[2].conflicts = 1

\* C19: the recovery pass after a restart turns every Task reloaded as Pending
\* or Running without a live worker into Failed with the orphan reason and
\* leaves every other Task, and every other field, as the snapshot has it;
\* a second pass changes nothing.
RecoveryDone == phase = "loaded" /\ phase' = "up"

Orphaned(task) == [task EXCEPT !.status = "Failed", !.error = OrphanReason]

C19_RecoveryFailsOrphans ==
  [][RecoveryDone =>
       /\ \A id \in TaskIds :
            /\ registry'[id] =
                 IF snapshot[id].status \in {"Pending", "Running"}
                 THEN Orphaned(snapshot[id]) ELSE snapshot[id]
            /\ registry'[id].status \in {"Pending", "Running"}
                 => HasLiveWorker(worker', id)
       /\ RecoveryPass(registry', worker') = registry']_vars

\* after the restart Task 1 is Completed as in the snapshot and Task 2,
\* Running in the snapshot, is Failed as an orphan
C19_Witness ==
  /\ phase = "up" /\ crashes = 1
  /\ snapshot[1].status = "Completed" /\ registry[1] = snapshot[1]
  /\ snapshot[2].status = "Running" /\ registry[2] = Orphaned(snapshot[2])

\* C20: a Task canceled while Pending is Canceled without ever having been
\* Running: from then on it is in no queue, no worker is bound to it and no
\* further transition of it is committed.
CanceledWhilePending(id) ==
  Len(history[id]) >= 2 /\ history[id][1] = "Pending" /\ history[id][2] = "Canceled"

C20_PendingCancelNeverRuns ==
  /\ [](\A id \in TaskIds :
          CanceledWhilePending(id) =>
            /\ \A w \in Workers : worker[w].task /= id
            /\ id \notin Range(queue)
            /\ Poll(id).status \in {"Canceled", "Absent"})
  /\ [][\A id \in TaskIds :
          /\ CanceledWhilePending(id) => history'[id] = history[id]
          /\ (registry[id].status = "Pending" /\ request'.id = id /\ request'.to = "Canceled")
               => (request'.reply = "ok" /\ history'[id] = <<"Pending", "Canceled">>)]_vars

\* Task 2 was canceled in the queue; Task 1 has completed since and the slot
\* is free
C20_Witness ==
  /\ history[2] = <<"Pending", "Canceled">>
  /\ registry[1].status = "Completed"
  /\ \A w \in Workers : worker[w] = Idle

\* C21: when the worker process of a Running Task dies, the Task eventually
\* (at the heartbeat check of its slot) becomes Failed and the slot returns
\* to the idle set.  Stated for a worker that dies while nothing else is
\* pending for its Task: no cancellation requested, no result handed back, no
\* timeout reported.
DeadWorkerOf(w, id) ==
  worker[w].task = id /\ ~worker[w].alive /\ registry[id].status = "Running"

DiedUndisturbed(w, id) ==
  /\ DeadWorkerOf(w, id)
  /\ ~worker[w].stopping /\ ~worker[w].returned /\ ~worker[w].timedOut

C21_DeadWorkerTaskFails ==
  \A w \in Workers, id \in TaskIds :
    DiedUndisturbed(w, id) ~> (registry[id].status = "Failed" /\ worker[w].task /= id)

\* C21, amended: the Task of a dead worker eventually becomes terminal and
\* its slot returns to the idle set in the same step; the Task is then Failed
\* unless a cancellation was requested or the worker had handed back its
\* result before it died.  No Task stays Running without a live worker.
DeadSlotReleased(w) == worker[w].task /= 0 /\ ~worker[w].alive /\ worker'[w] /= worker[w]
                         /\ worker'[w].task /= worker[w].task

C21_DeadWorkerTaskEnds ==
  /\ \A w \in Workers, id \in TaskIds :
       DeadWorkerOf(w, id) ~> (registry[id].status \in Terminal /\ worker[w].task /= id)
  /\ \A id \in TaskIds :
       (registry[id].status = "Running" /\ ~HasLiveWorker(worker, id))
         ~> (registry[id].status /= "Running")
  /\ [][\A w \in Workers :
          DeadSlotReleased(w) =>
            /\ worker'[w] = Idle
            /\ registry'[worker[w].task].status \in Terminal
            /\ \/ registry'[worker[w].task].status = "Failed"
               \/ worker[w].stopping
               \/ worker[w].returned]_vars

\* Task 1 failed because its worker process died, and the slot it held runs
\* Task 2
C21_Witness ==
  /\ registry[1].status = "Failed" /\ registry[1].error = DeathReason
  /\ registry[2].status = "Running"
  /\ \E w \in Workers : worker[w].task = 2 /\ worker[w].alive

\* C22: handling a pushed status message whose status is terminal (completed,
\* error, failed or canceled) ends the loading state, with or without a
\* result payload: loading is false and no loading bubble is displayed.
TerminalStatusHandled ==
  Len(lastDelivered) = 1 /\ IsTerminalFrame(lastDelivered[1])

C22_TerminalPushEndsLoading ==
  [][TerminalStatusHandled' => (~loading' /\ LoadingIndex(messages') = 0)]_vars

\* C23: keepalive.  The open handler hands 'connected' to onMessage and sends
\* one ping; every tick of the 30 s interval that finds the socket OPEN sends
\* one ping, and such a tick comes for as long as the socket is OPEN; a frame
\* is written only to an OPEN socket, and a send function called on a socket
\* in another state returns false and writes nothing.
OpenedNow == readyState = CONNECTING /\ readyState' = OPEN

PingSentNow == wsSent' = Append(wsSent, PingFrame)

KeepaliveSteps ==
  /\ OpenedNow =>
       /\ lastDelivered' = <<ConnectedFrame>>
       /\ messages' = ClearWebSocketErrors(messages)
       /\ PingSentNow
  /\ pings' /= pings => (readyState = OPEN /\ PingSentNow)
  /\ wsSent' /= wsSent => (readyState' = OPEN /\ Len(wsSent') = Len(wsSent) + 1)
  /\ lastSend' /= lastSend =>
       /\ lastSend'.ok <=> readyState = OPEN
       /\ ~lastSend'.ok => wsSent' = wsSent

C23_Keepalive ==
  /\ [][KeepaliveSteps]_vars
  /\ \A n \in 0..(MaxPings - 1) :
       (readyState = OPEN /\ pings = n) ~> (pings > n \/ readyState /= OPEN)

\* the ping of the open handler and the ping of one tick were sent, and a
\* cancel frame offered to the closed socket was refused
C23_Witness ==
  /\ wsSent = <<PingFrame, PingFrame>> /\ pings = 1
  /\ readyState = CLOSED
  /\ lastSend.kind = "cancel" /\ ~lastSend.ok /\ lastSend.readyState = CLOSED

\* C24: a log message handled while a query is loading replaces the text of
\* the loading bubble with the log text ('Thinking...' when it has none) and
\* changes nothing else; a log message handled while no query is loading
\* changes nothing; no log message changes the loading flag, the status or
\* the rendered outcomes.
LogHandled == Len(lastDelivered) = 1 /\ lastDelivered[1].type = "log"

WithBubbleText(msgs, text) ==
  [i \in 1..Len(msgs) |->
     IF i = LoadingIndex(msgs) THEN [msgs[i] EXCEPT !.content = text] ELSE msgs[i]]

C24_LogUpdatesBubbleOnly ==
  [][LogHandled' =>
       /\ loading' = loading /\ status' = status /\ outcomes' = outcomes
       /\ messages' = IF loading
                        THEN WithBubbleText(messages,
                               OrElse(lastDelivered'[1].message, "Thinking..."))
                        ELSE messages]_vars

\* C25: session affinity of browserService.  Once a response has carried
\* session id S, every later navigate, extract, performAction or closeSession
\* call without an explicit id sends S, until a closeSession of S succeeds;
\* then such calls carry no id.  A rejected request leaves the stored id as
\* it is, and closeSession without any id fails without sending a request.
Issued(n) == browserCalls[n].pc = "none" /\ browserCalls'[n].pc /= "none"

UsesStored(n) ==
  /\ Issued(n)
  /\ browserCalls'[n].op /= "amazonSearch"
  /\ browserCalls'[n].explicit = ""

Settled(n) == browserCalls[n].pc \in {"posted", "answered"} /\ browserCalls'[n].pc = "done"

RejectedKeepsStored ==
  \A n \in BrowserCallIds :
    (Settled(n) /\ browserCalls'[n].rejected) => currentSessionId' = currentSessionId

CloseWithoutIdFails ==
  \A n \in BrowserCallIds :
    (UsesStored(n) /\ browserCalls'[n].op = "closeSession" /\ currentSessionId = "")
      => /\ browserCalls'[n].pc = "done"
         /\ ~browserCalls'[n].requested
         /\ ~browserCalls'[n].returned.success

C25_SessionAffinity ==
  [][/\ \A n \in BrowserCallIds :
          UsesStored(n) =>
            /\ \A S \in affinity.open : browserCalls'[n].sent = S
            /\ affinity.open = {} => browserCalls'[n].sent = ""
     /\ RejectedKeepsStored
     /\ CloseWithoutIdFails]_vars

\* C25, amended: S is the session id carried by the latest response that
\* carried one.
Affine == IF affinity.latest \in affinity.open THEN affinity.latest ELSE ""

C25_LatestSessionAffinity ==
  /\ [](currentSessionId = Affine)
  /\ [][/\ \A n \in BrowserCallIds : UsesStored(n) => browserCalls'[n].sent = Affine
        /\ RejectedKeepsStored
        /\ CloseWithoutIdFails]_vars

\* the first call opened s1, the second sent s1 without naming it, and
\* after the close of s1 the stored id is gone
C25_Witness ==
  /\ browserCalls[1].returned.session_id = "s1"
  /\ browserCalls[2].op = "extract" /\ browserCalls[2].explicit = ""
  /\ browserCalls[2].sent = "s1"
  /\ browserCalls[3].op = "closeSession" /\ browserCalls[3].explicit = ""
  /\ browserCalls[3].sent = "s1" /\ browserCalls[3].returned.success
  /\ currentSessionId = ""

\* C26: after closeSession(S) has succeeded and cleared the stored id, the
\* stored id never becomes S again, whatever the order in which responses
\* arrive.
C26_ClosedSessionStaysCleared ==
  [][currentSessionId' /= currentSessionId
       => currentSessionId' \notin affinity.cleared]_vars

\* C27: the panel never has two submitted queries outstanding: loading is
\* true in every state in which a submitted query has no rendered outcome,
\* also after a transport error message was handled, so handleSubmit accepts
\* a submission only when every earlier one has its outcome.
C27_OneOutstandingQuery == outcomes < submitted => loading

\* C28: TaskViewer displays only snapshots of the task named by its current
\* taskId.  After taskId has changed from A to B while A was being polled, no
\* state update stores a snapshot of A, and B is polled until it is terminal
\* or maxPollDuration has elapsed: a viewer whose loop is not running has
\* polled the task its taskId names.
SnapshotStored == viewer'.shows /= viewer.shows \/ viewer'.task /= viewer.task

PolledToTheEnd ==
  /\ viewer.id = viewer.taskId
  /\ viewer.task \in CompletionStatuses \/ viewer.elapsed >= viewer.duration

C28_ViewerShowsCurrentTask ==
  /\ [][SnapshotStored => viewer'.shows = viewer'.taskId]_vars
  /\ [](viewer.pc = "idle" /\ viewer.selections > 0 => PolledToTheEnd)

\* C29: the list TaskList shows is the response to the most recently issued
\* list request.  A response to an older request, issued under a previous
\* filter or by an earlier refresh, that arrives after a newer response never
\* replaces the list, and once the latest request is answered its response is
\* the list shown.
LatestListRequest == Len(taskList.requests)

C29_LatestListResponseWins ==
  /\ [][taskList'.tasks >= taskList.tasks]_vars
  /\ [](/\ LatestListRequest > 0
        /\ taskList.requests[LatestListRequest].pc = "answered"
        => taskList.tasks = LatestListRequest)

\* C30: in every reachable state of ConversationPanel the message list holds
\* at most one loading bubble, and it holds one exactly when loading is true.
LoadingBubbles(msgs) == Cardinality({k \in DOMAIN msgs : msgs[k].role = "loading"})

C30_OneLoadingBubble ==
  /\ LoadingBubbles(messages) <= 1
  /\ LoadingBubbles(messages) = 1 <=> loading

\* both submissions were accepted and frames were pushed: one outcome and an
\* error message are rendered, and the other query is loading with its one
\* bubble
C30_Witness ==
  /\ submitted = MaxSubmits /\ outcomes = 1 /\ pushed > 0
  /\ loading /\ LoadingBubbles(messages) = 1
  /\ \E k \in DOMAIN messages : messages[k].role = "error"

====
